---- MODULE Spec2Model ----
(***************************************************************************)
(* Decision Record Lifecycle Engine (backend/decision_service.py on top of *)
(* backend/database_service.py): the status state machine, the automatic   *)
(* conflict resolution, and the versioning / changelog / revert subsystem. *)
(*                                                                         *)
(* The store is the set of PostgreSQL tables the service writes to.  Every *)
(* DatabaseService method opens a connection, runs one statement and       *)
(* commits, so one store call is the unit of atomicity of the code.        *)
(*   Spec      : service calls run one at a time (each call is one step).  *)
(*   SpecSiblings : the same on one Decision with more records.            *)
(*   SpecContent  : the same with content updates, reverts and diffs.      *)
(*   SpecSteps : every store call of change_record_status is one step;     *)
(*               callers interleave and a store write may fail.            *)
(***************************************************************************)
EXTENDS Integers, Sequences, FiniteSets, TLC

\* ------------------------------------------------------------------ bounds
MaxRecords == 2
MaxSiblings == 3
MaxContentRecords == 1
MaxVersion == 3
MaxStepEdits == 3
MaxTimelineRecords == 2
MaxTimelineCalls == 4
TicksPerDay == 2
MaxRelationships == 2

\* --------------------------------------------------------------- constants
NULL == "null"

Decisions == {"D1", "D2"}

Statuses ==
    {"proposed", "accepted", "implemented", "implemented_inferred", "rejected", "deprecated"}

\* A status string that is not a member of DecisionRecordStatus.
BogusStatus == "bogus"

RequestStatuses == Statuses \cup {BogusStatus}

Fields ==
    {"context", "constraints", "decision_description", "rationale", "assumptions",
     "consequences", "tradeoffs", "evidence", "options_considered"}

RecordIds == 1..MaxRecords

VARIABLES
    records,          \* table decision_records: Seq of rows, the id is the index
    status_history,   \* table decision_record_status_history: rows per record, oldest first
    relationships,    \* table decision_record_relationships: rows in insertion order
    record_versions,  \* table decision_record_versions: set of rows, key (decision_record_id, version)
    changelog,        \* table decision_record_changelog: rows per record, oldest first
    last,             \* the last completed service call and what it returned
    calls,            \* SpecSteps: the frame of each caller's running change_record_status
    timestamps        \* SpecTimeline: created_at / changed_at of the rows, by table

vars ==
    <<records, status_history, relationships, record_versions, changelog, last, calls,
      timestamps>>

\* ------------------------------------------------------- transition table
VALID_TRANSITIONS_NoTerminal ==
    [s \in Statuses |->
        CASE s = "proposed" -> {"accepted", "rejected"}
          [] s = "accepted" -> {"implemented", "rejected", "deprecated"}
          [] s = "implemented" -> {"deprecated"}
          [] s = "implemented_inferred" -> {"deprecated"}
          [] s = "rejected" -> {"proposed"}
          [] s = "deprecated" -> {"accepted"}]

VALID_TRANSITIONS_ToInferred ==
    [s \in Statuses |->
        CASE s = "proposed" -> {"accepted", "rejected"}
          [] s = "accepted" -> {"implemented", "implemented_inferred", "rejected", "deprecated"}
          [] s = "implemented" -> {"deprecated"}
          [] s = "implemented_inferred" -> {"deprecated"}
          [] s = "rejected" -> {}
          [] s = "deprecated" -> {}]

VALID_TRANSITIONS_ProposedToImplemented ==
    [s \in Statuses |->
        CASE s = "proposed" -> {"accepted", "implemented", "rejected"}
          [] s = "accepted" -> {"implemented", "rejected", "deprecated"}
          [] s = "implemented" -> {"deprecated"}
          [] s = "implemented_inferred" -> {"deprecated"}
          [] s = "rejected" -> {}
          [] s = "deprecated" -> {}]

VALID_TRANSITIONS ==
    [s \in Statuses |->
        CASE s = "proposed" -> {"accepted", "rejected"}
          [] s = "accepted" -> {"implemented", "rejected", "deprecated"}
          [] s = "implemented" -> {"deprecated"}
          [] s = "implemented_inferred" -> {"deprecated"}
          [] s = "rejected" -> {}
          [] s = "deprecated" -> {}]

is_valid_transition_Reflexive(from_status, to_status) ==
    \/ from_status = to_status
    \/ /\ from_status \in DOMAIN VALID_TRANSITIONS
       /\ to_status \in VALID_TRANSITIONS[from_status]

\* VALID_TRANSITIONS.get(from_status, []) : an unknown from_status has no targets.
is_valid_transition(from_status, to_status) ==
    /\ from_status \in DOMAIN VALID_TRANSITIONS
    /\ to_status \in VALID_TRANSITIONS[from_status]

\* ---------------------------------------------------------- store reads
RecordExists(recs, record_id) == record_id \in 1..Len(recs)

SiblingsWithStatus(recs, decision_id, statuses) ==
    {r \in 1..Len(recs) : recs[r].decision_id = decision_id /\ recs[r].status \in statuses}

\* SELECT ... WHERE decision_id = %s AND status = 'accepted' LIMIT 1, with no
\* ORDER BY: any one of the matching rows may be returned.  The set of the rows
\* the query can return; empty when it returns None.
get_current_accepted_record(recs, decision_id) ==
    SiblingsWithStatus(recs, decision_id, {"accepted"})

get_current_implemented_record(recs, decision_id) ==
    SiblingsWithStatus(recs, decision_id, {"implemented", "implemented_inferred"})

\* ---------------------------------------------------------- store writes
update_decision_record_status_BumpsVersion(recs, record_id, new_status) ==
    [recs EXCEPT ![record_id].status = new_status, ![record_id].version = @ + 1]

\* UPDATE decision_records SET status = %s, updated_at = CURRENT_TIMESTAMP
update_decision_record_status(recs, record_id, new_status) ==
    [recs EXCEPT ![record_id].status = new_status]

NoMetadata == [change_type |-> "none", triggering_decision_record_id |-> 0]

AutomaticMetadata(record_id) ==
    [change_type |-> "automatic", triggering_decision_record_id |-> record_id]

StatusHistoryRow(from_status, to_status, reason, metadata) ==
    [from_status |-> from_status, to_status |-> to_status, reason |-> reason,
     metadata |-> metadata]

create_status_history(hist, record_id, row) ==
    [hist EXCEPT ![record_id] = Append(@, row)]

\* A row of decision_record_relationships; its id is its place in the table.
DescribedRelationshipRow(source_record_id, target_record_id, relationship_type, description) ==
    [source_record_id |-> source_record_id, target_record_id |-> target_record_id,
     relationship_type |-> relationship_type, description |-> description]

\* 'Automatically superseded when record ... was accepted / implemented'
AutoDescription == "Automatically superseded"

\* The edge a cascade writes.
RelationshipRow(source_record_id, target_record_id, relationship_type) ==
    DescribedRelationshipRow(source_record_id, target_record_id, relationship_type,
                             AutoDescription)

create_relationship(rels, row) == Append(rels, row)

\* SELECT * FROM decision_record_relationships WHERE id = %s: found or None.
get_relationship(rels, relationship_id) == relationship_id \in DOMAIN rels

\* SELECT ... WHERE source_record_id = %s: the outgoing rows, by id.
outgoing_relationships(rels, record_id) ==
    {i \in DOMAIN rels : rels[i].source_record_id = record_id}

\* UPDATE ... SET the arguments that are not None WHERE id = %s.
update_relationship(rels, relationship_id, relationship_type, description) ==
    [rels EXCEPT ![relationship_id] =
        [@ EXCEPT !.relationship_type =
                     IF relationship_type # NULL THEN relationship_type ELSE @,
                  !.description = IF description # NULL THEN description ELSE @]]

\* DELETE FROM decision_record_relationships WHERE id = %s.
delete_relationship(rels, relationship_id) ==
    [i \in 1..(Len(rels) - 1) |-> IF i < relationship_id THEN rels[i] ELSE rels[i + 1]]

\* ------------------------------------------------- change_record_status
\* The part of the store a status change reads and writes.
StatusStore(recs, hist, rels) ==
    [records |-> recs, status_history |-> hist, relationships |-> rels]

\* The three writes of one automatic transition of a sibling: its status, its
\* StatusHistory row (from_status is the status of the row the lookup returned)
\* and the superseded_by edge sibling -> triggering record.
Cascade_NoHistory(st, sibling, from_status, to_status, reason, record_id) ==
    [records |-> update_decision_record_status(st.records, sibling, to_status),
     status_history |-> st.status_history,
     relationships |->
        create_relationship(st.relationships,
            RelationshipRow(sibling, record_id, "superseded_by"))]

Cascade_EdgeReversed(st, sibling, from_status, to_status, reason, record_id) ==
    [records |-> update_decision_record_status(st.records, sibling, to_status),
     status_history |->
        create_status_history(st.status_history, sibling,
            StatusHistoryRow(from_status, to_status, reason, AutomaticMetadata(record_id))),
     relationships |->
        create_relationship(st.relationships,
            RelationshipRow(record_id, sibling, "superseded_by"))]

Cascade(st, sibling, from_status, to_status, reason, record_id) ==
    [records |-> update_decision_record_status(st.records, sibling, to_status),
     status_history |->
        create_status_history(st.status_history, sibling,
            StatusHistoryRow(from_status, to_status, reason, AutomaticMetadata(record_id))),
     relationships |->
        create_relationship(st.relationships,
            RelationshipRow(sibling, record_id, "superseded_by"))]

ConflictStep(error, st, affected) ==
    [error |-> error, st |-> st, affected |-> affected]

ReasonAutoRejected == "Automatically rejected: Another record was accepted"
ReasonAutoDeprecated == "Automatically deprecated: Another record was implemented"

\* if new_status == ACCEPTED: (lines 516-547)
HandleAccept_WriteThenRaise(st, record_id, auto_handle_conflicts) ==
    LET cands == get_current_accepted_record(st.records, st.records[record_id].decision_id)
    IN  IF cands = {} THEN {ConflictStep("none", st, <<>>)}
        ELSE {IF current_accepted # record_id
                THEN ConflictStep(IF auto_handle_conflicts THEN "none" ELSE "Conflict",
                        Cascade(st, current_accepted, st.records[current_accepted].status,
                                "rejected", ReasonAutoRejected, record_id),
                        <<current_accepted>>)
                ELSE ConflictStep("none", st, <<>>)
              : current_accepted \in cands}

HandleAccept_ConflictIgnored(st, record_id, auto_handle_conflicts) ==
    LET cands == get_current_accepted_record(st.records, st.records[record_id].decision_id)
    IN  IF cands = {} THEN {ConflictStep("none", st, <<>>)}
        ELSE {IF current_accepted # record_id /\ auto_handle_conflicts
                THEN ConflictStep("none",
                        Cascade(st, current_accepted, st.records[current_accepted].status,
                                "rejected", ReasonAutoRejected, record_id),
                        <<current_accepted>>)
                ELSE ConflictStep("none", st, <<>>)
              : current_accepted \in cands}

HandleAccept(st, record_id, auto_handle_conflicts) ==
    LET cands == get_current_accepted_record(st.records, st.records[record_id].decision_id)
    IN  IF cands = {} THEN {ConflictStep("none", st, <<>>)}
        ELSE {IF current_accepted # record_id
                THEN IF auto_handle_conflicts
                       THEN ConflictStep("none",
                                Cascade(st, current_accepted, st.records[current_accepted].status,
                                        "rejected", ReasonAutoRejected, record_id),
                                <<current_accepted>>)
                       ELSE ConflictStep("Conflict", st, <<>>)
                ELSE ConflictStep("none", st, <<>>)
              : current_accepted \in cands}

HandleImplemented_NoAffected(st, record_id, auto_handle_conflicts) ==
    LET cands == get_current_implemented_record(st.records, st.records[record_id].decision_id)
    IN  IF cands = {} THEN {ConflictStep("none", st, <<>>)}
        ELSE {IF current_implemented # record_id
                THEN IF auto_handle_conflicts
                       THEN ConflictStep("none",
                                Cascade(st, current_implemented,
                                        st.records[current_implemented].status,
                                        "deprecated", ReasonAutoDeprecated, record_id),
                                <<>>)
                       ELSE ConflictStep("Conflict", st, <<>>)
                ELSE ConflictStep("none", st, <<>>)
              : current_implemented \in cands}

\* if new_status == IMPLEMENTED, first half: (lines 550-581)
HandleImplemented(st, record_id, auto_handle_conflicts) ==
    LET cands == get_current_implemented_record(st.records, st.records[record_id].decision_id)
    IN  IF cands = {} THEN {ConflictStep("none", st, <<>>)}
        ELSE {IF current_implemented # record_id
                THEN IF auto_handle_conflicts
                       THEN ConflictStep("none",
                                Cascade(st, current_implemented,
                                        st.records[current_implemented].status,
                                        "deprecated", ReasonAutoDeprecated, record_id),
                                <<current_implemented>>)
                       ELSE ConflictStep("Conflict", st, <<>>)
                ELSE ConflictStep("none", st, <<>>)
              : current_implemented \in cands}

\* if new_status == IMPLEMENTED, second half: (lines 583-610) "Also deprecate the
\* accepted record if different"; with auto_handle_conflicts false there is no
\* else branch: nothing is written and nothing is raised.
HandleAcceptedOnImplement_Ungated(prev, record_id, auto_handle_conflicts) ==
    LET st == prev.st
        cands == get_current_accepted_record(st.records, st.records[record_id].decision_id)
    IN  IF cands = {} THEN {prev}
        ELSE {IF current_accepted # record_id
                THEN ConflictStep("none",
                        Cascade(st, current_accepted, st.records[current_accepted].status,
                                "deprecated", ReasonAutoDeprecated, record_id),
                        Append(prev.affected, current_accepted))
                ELSE prev
              : current_accepted \in cands}

HandleAcceptedOnImplement(prev, record_id, auto_handle_conflicts) ==
    LET st == prev.st
        cands == get_current_accepted_record(st.records, st.records[record_id].decision_id)
    IN  IF cands = {} THEN {prev}
        ELSE {IF current_accepted # record_id /\ auto_handle_conflicts
                THEN ConflictStep("none",
                        Cascade(st, current_accepted, st.records[current_accepted].status,
                                "deprecated", ReasonAutoDeprecated, record_id),
                        Append(prev.affected, current_accepted))
                ELSE prev
              : current_accepted \in cands}

HandleConflicts_OnEveryTarget(st, record_id, new_status, auto_handle_conflicts) ==
    IF new_status = "accepted"
      THEN HandleAccept(st, record_id, auto_handle_conflicts)
      ELSE UNION {IF r.error = "none"
                    THEN HandleAcceptedOnImplement(r, record_id, auto_handle_conflicts)
                    ELSE {r}
                  : r \in HandleImplemented(st, record_id, auto_handle_conflicts)}

\* The conflict handling of lines 515-610 as a whole.
HandleConflicts(st, record_id, new_status, auto_handle_conflicts) ==
    IF new_status = "accepted"
      THEN HandleAccept(st, record_id, auto_handle_conflicts)
    ELSE IF new_status = "implemented"
      THEN UNION {IF r.error = "none"
                    THEN HandleAcceptedOnImplement(r, record_id, auto_handle_conflicts)
                    ELSE {r}
                  : r \in HandleImplemented(st, record_id, auto_handle_conflicts)}
    ELSE {ConflictStep("none", st, <<>>)}

\* Lines 612-622: the primary status write and its StatusHistory row.
ApplyPrimary(st, record_id, old_status, new_status, reason) ==
    [records |-> update_decision_record_status(st.records, record_id, new_status),
     status_history |->
        create_status_history(st.status_history, record_id,
            StatusHistoryRow(old_status, new_status, reason, NoMetadata)),
     relationships |-> st.relationships]

StatusResult(outcome, st, affected) ==
    [outcome |-> outcome, st |-> st, affected_records |-> affected]

\* The text each ValueError of change_record_status starts with; the caller
\* (app.py) returns str(e), so the text is what tells the failures apart.
ValueErrorMessage(outcome) ==
    CASE outcome = "NotFound" -> "Record {record_id} not found"
      [] outcome = "InvalidStatus" -> "Invalid status: {new_status}"
      [] outcome = "InvalidTransition" ->
            "Invalid status transition from '{old_status}' to '{new_status}'"
      [] outcome = "Conflict" -> "Another record is already accepted/implemented."

change_record_status_StatusFirst(st, record_id, new_status, reason, auto_handle_conflicts) ==
    IF new_status \notin Statuses
      THEN {StatusResult("InvalidStatus", st, <<>>)}
    ELSE IF ~RecordExists(st.records, record_id)
      THEN {StatusResult("NotFound", st, <<>>)}
    ELSE IF ~is_valid_transition(st.records[record_id].status, new_status)
      THEN {StatusResult("InvalidTransition", st, <<>>)}
    ELSE LET old_status == st.records[record_id].status
         IN  {IF r.error # "none"
                THEN StatusResult(r.error, r.st, <<>>)
                ELSE StatusResult("ok",
                        ApplyPrimary(r.st, record_id, old_status, new_status, reason),
                        r.affected)
              : r \in HandleConflicts(st, record_id, new_status, auto_handle_conflicts)}

\* change_record_status run without interleaving: the set of the results it can
\* return (more than one only where a LIMIT 1 lookup matches several rows).
\* The four ValueErrors are named NotFound, InvalidStatus, InvalidTransition and
\* Conflict after the message each carries.
change_record_status(st, record_id, new_status, reason, auto_handle_conflicts) ==
    IF ~RecordExists(st.records, record_id)
      THEN {StatusResult("NotFound", st, <<>>)}
    ELSE IF new_status \notin Statuses
      THEN {StatusResult("InvalidStatus", st, <<>>)}
    ELSE IF ~is_valid_transition(st.records[record_id].status, new_status)
      THEN {StatusResult("InvalidTransition", st, <<>>)}
    ELSE LET old_status == st.records[record_id].status
         IN  {IF r.error # "none"
                THEN StatusResult(r.error, r.st, <<>>)
                ELSE StatusResult("ok",
                        ApplyPrimary(r.st, record_id, old_status, new_status, reason),
                        r.affected)
              : r \in HandleConflicts(st, record_id, new_status, auto_handle_conflicts)}

\* ------------------------------------------------------ versioning store
Values == {"a", "b", "d"}

\* The arguments of update_decision_record: a value, or NULL (None) for a field
\* the caller does not supply.
NoFields == [f \in Fields |-> NULL]

\* A row of decision_records.
DecisionRecord(decision_id, status, content) ==
    [decision_id |-> decision_id, status |-> status, version |-> 1, content |-> content]

\* snapshot_data: the nine content fields plus status, version and decision_id.
SnapshotOf(rec) ==
    [content |-> rec.content, status |-> rec.status, version |-> rec.version,
     decision_id |-> rec.decision_id]

RecordVersionRow(record_id, version, snapshot) ==
    [decision_record_id |-> record_id, version |-> version, snapshot |-> snapshot]

HasVersion(versions, record_id, version) ==
    \E v \in versions : v.decision_record_id = record_id /\ v.version = version

\* SELECT ... WHERE decision_record_id = %s AND version = %s; the key is unique.
get_record_version_by_number(versions, record_id, version) ==
    CHOOSE v \in versions : v.decision_record_id = record_id /\ v.version = version

create_record_version_Upsert(versions, row) ==
    {v \in versions :
        ~(v.decision_record_id = row.decision_record_id /\ v.version = row.version)}
        \cup {row}

\* INSERT ... ON CONFLICT (decision_record_id, version) DO NOTHING
create_record_version(versions, row) ==
    IF HasVersion(versions, row.decision_record_id, row.version)
      THEN versions
      ELSE versions \cup {row}

\* cursor.rowcount after the INSERT: 0 when the insert was skipped.
create_record_version_rowcount(versions, row) ==
    IF HasVersion(versions, row.decision_record_id, row.version) THEN 0 ELSE 1

\* What create_record_version returns: the row already stored when the insert
\* was skipped (rowcount == 0), the new row otherwise.
create_record_version_returns(versions, row) ==
    IF create_record_version_rowcount(versions, row) = 0
      THEN get_record_version_by_number(versions, row.decision_record_id, row.version)
      ELSE row

\* SELECT ... WHERE decision_record_id = %s ORDER BY version DESC
get_all_record_versions(versions, record_id) ==
    LET rows == {v \in versions : v.decision_record_id = record_id}
    IN  [i \in 1..Cardinality(rows) |->
            CHOOSE v \in rows : Cardinality({w \in rows : w.version > v.version}) = i - 1]

\* DecisionService.get_record_at_version: the snapshot, or None.
get_record_at_version(versions, record_id, version) ==
    IF HasVersion(versions, record_id, version)
      THEN get_record_version_by_number(versions, record_id, version).snapshot
      ELSE NULL

\* The route /api/records/<id>/versions/<version>: 404 "Version N not found"
\* when the service returns None, which it does exactly when there is no row.
get_record_at_version_route(versions, record_id, version) ==
    LET snapshot == get_record_at_version(versions, record_id, version)
    IN  IF ~HasVersion(versions, record_id, version)
          THEN [outcome |-> "NotFound", snapshot |-> NULL]
          ELSE [outcome |-> "ok", snapshot |-> snapshot]

update_decision_record_WholeRow(recs, record_id, record_data, new_version) ==
    [recs EXCEPT
        ![record_id].content =
            [f \in Fields |-> IF f \in DOMAIN record_data THEN record_data[f] ELSE NULL],
        ![record_id].version = new_version]

update_decision_record_KeepVersion(recs, record_id, record_data, new_version) ==
    [recs EXCEPT
        ![record_id].content =
            [f \in Fields |-> IF f \in DOMAIN record_data THEN record_data[f] ELSE @[f]]]

update_decision_record_SkipNull(recs, record_id, record_data, new_version) ==
    [recs EXCEPT
        ![record_id].content =
            [f \in Fields |->
                IF f \in DOMAIN record_data /\ record_data[f] # NULL
                  THEN record_data[f] ELSE @[f]],
        ![record_id].version = new_version]

\* UPDATE decision_records SET <the fields in record_data>, version = %s
update_decision_record(recs, record_id, record_data, new_version) ==
    [recs EXCEPT
        ![record_id].content =
            [f \in Fields |-> IF f \in DOMAIN record_data THEN record_data[f] ELSE @[f]],
        ![record_id].version = new_version]

ChangelogRow(from_version, to_version, changes, summary) ==
    [from_version |-> from_version, to_version |-> to_version, changes |-> changes,
     summary |-> summary]

create_changelog_entry_KeepLatest(log, record_id, row) ==
    [log EXCEPT ![record_id] = <<row>>]

\* INSERT INTO decision_record_changelog
create_changelog_entry(log, record_id, row) ==
    [log EXCEPT ![record_id] = Append(@, row)]

\* The part of the store a content change reads and writes.
ContentStore(recs, versions, log) ==
    [records |-> recs, record_versions |-> versions, changelog |-> log]

ContentResult(outcome, st) == [outcome |-> outcome, st |-> st]

\* changes[field] = {'old': ..., 'new': ...} for the fields whose value differs.
ChangesBetween_OldOnly(old_content, new_content, fields) ==
    [f \in {g \in fields : old_content[g] # new_content[g]} |->
        [old |-> old_content[f], new |-> old_content[f]]]

ChangesBetween(old_content, new_content, fields) ==
    [f \in {g \in fields : old_content[g] # new_content[g]} |->
        [old |-> old_content[f], new |-> new_content[f]]]

SnapshotCurrent_Skip(versions, record_id, current_record) == versions

\* "Create snapshot of current state before update (only if it doesn't already exist)"
SnapshotCurrent(versions, record_id, current_record) ==
    IF HasVersion(versions, record_id, current_record.version)
      THEN versions
      ELSE create_record_version(versions,
              RecordVersionRow(record_id, current_record.version, SnapshotOf(current_record)))

UpdatedSummary(fields) ==
    [kind |-> "Updated", fields |-> fields, version |-> 0, reason |-> NULL]

RevertedSummary(version, reason) ==
    IF reason # NULL
      THEN [kind |-> "reason", fields |-> {}, version |-> 0, reason |-> reason]
      ELSE [kind |-> "Reverted to version", fields |-> {}, version |-> version, reason |-> NULL]

update_content_AlwaysBumps(st, record_id, input) ==
    IF ~RecordExists(st.records, record_id)
      THEN ContentResult("NotFound", st)
    ELSE
      LET current_record == st.records[record_id]
          supplied == {f \in Fields : input[f] # NULL}
          record_data == [f \in supplied |-> input[f]]
          changes == ChangesBetween(current_record.content, input, supplied)
          current_version == current_record.version
          new_version == current_version + 1
      IN  IF supplied = {}
            THEN ContentResult("unchanged", st)
            ELSE ContentResult("ok",
                   [records |->
                        update_decision_record(st.records, record_id, record_data, new_version),
                    record_versions |->
                        SnapshotCurrent(st.record_versions, record_id, current_record),
                    changelog |->
                        create_changelog_entry(st.changelog, record_id,
                            ChangelogRow(current_version, new_version, changes,
                                         UpdatedSummary(DOMAIN changes)))])

\* DecisionService.update_decision_record run without interleaving.
update_content(st, record_id, input) ==
    IF ~RecordExists(st.records, record_id)
      THEN ContentResult("NotFound", st)
    ELSE
      LET current_record == st.records[record_id]
          supplied == {f \in Fields : input[f] # NULL}
          record_data == [f \in supplied |-> input[f]]
          changes == ChangesBetween(current_record.content, input, supplied)
          current_version == current_record.version
          new_version == current_version + 1
      IN  IF supplied = {} \/ DOMAIN changes = {}
            THEN ContentResult("unchanged", st)
            ELSE ContentResult("ok",
                   [records |->
                        update_decision_record(st.records, record_id, record_data, new_version),
                    record_versions |->
                        SnapshotCurrent(st.record_versions, record_id, current_record),
                    changelog |->
                        create_changelog_entry(st.changelog, record_id,
                            ChangelogRow(current_version, new_version, changes,
                                         UpdatedSummary(DOMAIN changes)))])

revert_to_version_Rewind(st, record_id, version, reason) ==
    IF ~HasVersion(st.record_versions, record_id, version)
      THEN ContentResult("NotFound", st)
    ELSE IF ~RecordExists(st.records, record_id)
      THEN ContentResult("NotFound", st)
    ELSE
      LET target_snapshot ==
              get_record_version_by_number(st.record_versions, record_id, version).snapshot
          current_record == st.records[record_id]
          current_version == current_record.version
          record_data == [f \in Fields |-> target_snapshot.content[f]]
          changes == ChangesBetween(current_record.content, target_snapshot.content, Fields)
      IN  ContentResult("ok",
             [records |->
                  update_decision_record(st.records, record_id, record_data, version),
              record_versions |->
                  SnapshotCurrent(st.record_versions, record_id, current_record),
              changelog |->
                  create_changelog_entry(st.changelog, record_id,
                      ChangelogRow(current_version, version, changes,
                                   RevertedSummary(version, reason)))])

revert_to_version_SnapshotFirst(st, record_id, version, reason) ==
    IF ~RecordExists(st.records, record_id)
      THEN ContentResult("NotFound", st)
    ELSE
      LET current_record == st.records[record_id]
          snapped == [st EXCEPT !.record_versions =
                         SnapshotCurrent(@, record_id, current_record)]
      IN  IF ~HasVersion(st.record_versions, record_id, version)
            THEN ContentResult("NotFound", snapped)
          ELSE
            LET target_snapshot ==
                    get_record_version_by_number(st.record_versions, record_id,
                                                 version).snapshot
                current_version == current_record.version
                new_version == current_version + 1
                record_data == [f \in Fields |-> target_snapshot.content[f]]
                changes == ChangesBetween(current_record.content,
                                          target_snapshot.content, Fields)
            IN  ContentResult("ok",
                   [records |->
                        update_decision_record(st.records, record_id, record_data,
                                               new_version),
                    record_versions |-> snapped.record_versions,
                    changelog |->
                        create_changelog_entry(st.changelog, record_id,
                            ChangelogRow(current_version, new_version, changes,
                                         RevertedSummary(version, reason)))])

\* DecisionService.revert_to_version run without interleaving.
revert_to_version(st, record_id, version, reason) ==
    IF ~HasVersion(st.record_versions, record_id, version)
      THEN ContentResult("NotFound", st)
    ELSE IF ~RecordExists(st.records, record_id)
      THEN ContentResult("NotFound", st)
    ELSE
      LET target_snapshot ==
              get_record_version_by_number(st.record_versions, record_id, version).snapshot
          current_record == st.records[record_id]
          current_version == current_record.version
          new_version == current_version + 1
          record_data == [f \in Fields |-> target_snapshot.content[f]]
          changes == ChangesBetween(current_record.content, target_snapshot.content, Fields)
      IN  ContentResult("ok",
             [records |->
                  update_decision_record(st.records, record_id, record_data, new_version),
              record_versions |->
                  SnapshotCurrent(st.record_versions, record_id, current_record),
              changelog |->
                  create_changelog_entry(st.changelog, record_id,
                      ChangelogRow(current_version, new_version, changes,
                                   RevertedSummary(version, reason)))])

\* ------------------------------------------------------ get_version_diff
\* A from_version / to_version argument: the string "current" or a number.
Current == [current |-> TRUE, number |-> 0]

Numbered(version) == [current |-> FALSE, number |-> version]

\* One side of a diff as lines 752-774 resolve it: "current" reads the live row
\* and takes its version, a number reads the snapshot of that version.
DiffSide(found, label, number, content) ==
    [found |-> found, label |-> label, number |-> number, content |-> content]

ResolveSide(st, record_id, version) ==
    IF version.current
      THEN IF RecordExists(st.records, record_id)
             THEN DiffSide(TRUE, version, st.records[record_id].version,
                           st.records[record_id].content)
             ELSE DiffSide(FALSE, version, 0, NoFields)
      ELSE IF HasVersion(st.record_versions, record_id, version.number)
             THEN DiffSide(TRUE, version, version.number,
                           get_record_version_by_number(st.record_versions, record_id,
                                                        version.number).snapshot.content)
             ELSE DiffSide(FALSE, version, 0, NoFields)

comparable_fields == Fields

DiffResult(outcome, from_side, to_side, changes) ==
    [outcome |-> outcome,
     from_version |-> from_side.label, from_version_number |-> from_side.number,
     to_version |-> to_side.label, to_version_number |-> to_side.number,
     changes |-> changes]

get_version_diff_ToIsCurrent(st, record_id, from_version, to_version) ==
    LET from_side == ResolveSide(st, record_id, from_version)
        to_side == ResolveSide(st, record_id, Current)
    IN  IF ~from_side.found \/ ~to_side.found
          THEN DiffResult("NotFound", from_side, to_side,
                          ChangesBetween(NoFields, NoFields, comparable_fields))
          ELSE DiffResult("ok", from_side, to_side,
                          ChangesBetween(from_side.content, to_side.content,
                                         comparable_fields))

get_version_diff_OldFromTo(st, record_id, from_version, to_version) ==
    LET from_side == ResolveSide(st, record_id, from_version)
        to_side == ResolveSide(st, record_id, to_version)
    IN  IF ~from_side.found \/ ~to_side.found
          THEN DiffResult("NotFound", from_side, to_side,
                          ChangesBetween(NoFields, NoFields, comparable_fields))
          ELSE DiffResult("ok", from_side, to_side,
                          ChangesBetween(to_side.content, from_side.content,
                                         comparable_fields))

\* DecisionService.get_version_diff: a read of the store.  Either side missing
\* raises a ValueError ("... not found"), the from side being looked up first.
get_version_diff(st, record_id, from_version, to_version) ==
    LET from_side == ResolveSide(st, record_id, from_version)
        to_side == ResolveSide(st, record_id, to_version)
    IN  IF ~from_side.found \/ ~to_side.found
          THEN DiffResult("NotFound", from_side, to_side,
                          ChangesBetween(NoFields, NoFields, comparable_fields))
          ELSE DiffResult("ok", from_side, to_side,
                          ChangesBetween(from_side.content, to_side.content,
                                         comparable_fields))

\* ------------------------------------------------ create_decision_record
\* A decision id that names no row of the decisions table.
NoSuchDecision == "D0"

\* The status arguments Python takes as false: None and the empty string.
Falsy == {NULL, ""}

\* "if status and status not in [...]": a false status is not validated and
\* becomes proposed.
create_status_ok(status) == status \in Falsy \/ status \in Statuses

InitialStatus_AlwaysProposed(status) == "proposed"

\* "status or DecisionRecordStatus.PROPOSED.value"
InitialStatus(status) == IF status \in Falsy THEN "proposed" ELSE status

\* The whole store, as create_decision_record writes to three tables.
FullStore(recs, hist, versions, log) ==
    [records |-> recs, status_history |-> hist, record_versions |-> versions,
     changelog |-> log]

create_decision_record_NoSnapshot(st, decision_id, status, content) ==
    IF decision_id \notin Decisions
      THEN [outcome |-> "NotFound", st |-> st, id |-> 0]
    ELSE IF ~create_status_ok(status)
      THEN [outcome |-> "InvalidStatus", st |-> st, id |-> 0]
    ELSE
      LET id == Len(st.records) + 1
          result == DecisionRecord(decision_id, InitialStatus(status), content)
      IN  [outcome |-> "ok", id |-> id,
           st |-> [records |-> Append(st.records, result),
                   status_history |->
                       Append(st.status_history,
                              <<StatusHistoryRow(NULL, result.status, "Initial creation",
                                                 NoMetadata)>>),
                   record_versions |-> st.record_versions,
                   changelog |-> Append(st.changelog, <<>>)]]

\* DecisionService.create_decision_record run without interleaving.  The new
\* row's id (a fresh uuid in the code) is the next index of the table.
create_decision_record(st, decision_id, status, content) ==
    IF decision_id \notin Decisions
      THEN [outcome |-> "NotFound", st |-> st, id |-> 0]
    ELSE IF ~create_status_ok(status)
      THEN [outcome |-> "InvalidStatus", st |-> st, id |-> 0]
    ELSE
      LET id == Len(st.records) + 1
          result == DecisionRecord(decision_id, InitialStatus(status), content)
      IN  [outcome |-> "ok", id |-> id,
           st |-> [records |-> Append(st.records, result),
                   status_history |->
                       Append(st.status_history,
                              <<StatusHistoryRow(NULL, result.status, "Initial creation",
                                                 NoMetadata)>>),
                   record_versions |->
                       create_record_version(st.record_versions,
                           RecordVersionRow(id, 1, SnapshotOf(result))),
                   changelog |-> Append(st.changelog, <<>>)]]

\* ------------------------------------------------------------- the calls
BaseContent == [f \in Fields |-> IF f = "decision_description" THEN "d" ELSE NULL]

InputOf(field, value) == [f \in Fields |-> IF f = field THEN value ELSE NULL]

\* The update_decision_record arguments explored: nothing supplied, one field,
\* or two fields of which one repeats the value every record is created with.
UpdateInputs ==
    {NoFields, InputOf("rationale", "a"), InputOf("decision_description", "d"),
     [InputOf("rationale", "a") EXCEPT !["decision_description"] = "d"]}

\* All five tables.
Store ==
    [records |-> records, status_history |-> status_history,
     relationships |-> relationships, record_versions |-> record_versions,
     changelog |-> changelog]

EmptyStore ==
    [records |-> <<>>, status_history |-> <<>>, relationships |-> <<>>,
     record_versions |-> {}, changelog |-> <<>>]

\* A completed call that returned without raising: its arguments, what it
\* returned, and the store it started from.  A call that raises returns nothing
\* and (run without interleaving) writes nothing, so it leaves no trace here;
\* what such a call does is stated on the operators above.
Call(op, record_id, status, auto_handle_conflicts, version, input, affected, before) ==
    [op |-> op, record_id |-> record_id, status |-> status,
     auto_handle_conflicts |-> auto_handle_conflicts, version |-> version,
     input |-> input, affected_records |-> affected, before |-> before]

NoCall == Call("none", 0, NULL, FALSE, 0, NoFields, <<>>, EmptyStore)

Callers == {"c1", "c2"}

IdleFrame ==
    [pc |-> "idle", record_id |-> 0, new_status |-> NULL, auto_handle_conflicts |-> FALSE,
     old_status |-> NULL, decision_id |-> NULL, sibling |-> 0, sibling_status |-> NULL,
     cascade_to |-> NULL, reason |-> NULL, next |-> NULL, affected_records |-> <<>>,
     outcome |-> "none", before |-> EmptyStore]

\* created_at of decision_records and changed_at of the status history and the
\* changelog, in the shape of those tables.
NoTimestamps == [records |-> <<>>, status_history |-> <<>>, changelog |-> <<>>]

\* Only the timeline reads the timestamps; the specifications that do not
\* look at the timeline leave them out.
Untimed == UNCHANGED timestamps

Init ==
    /\ records = <<>>
    /\ status_history = <<>>
    /\ relationships = <<>>
    /\ record_versions = {}
    /\ changelog = <<>>
    /\ last = NoCall
    /\ calls = [c \in Callers |-> IdleFrame]
    /\ timestamps = NoTimestamps

\* Each action below is one service call that returns without raising.  A call
\* that raises writes nothing when run without interleaving (the operators
\* return the store they were given), so it is a stuttering step of Spec.
CreateRecordWithin(limit, decision_id, status) ==
    /\ Len(records) < limit
    /\ LET res == create_decision_record(
                      FullStore(records, status_history, record_versions, changelog),
                      decision_id, status, BaseContent)
       IN  /\ res.outcome = "ok"
           /\ records' = res.st.records
           /\ status_history' = res.st.status_history
           /\ record_versions' = res.st.record_versions
           /\ changelog' = res.st.changelog
           /\ last' = Call("createRecord", res.id, status, FALSE, 0, NoFields, <<>>, Store)
    /\ UNCHANGED <<relationships, calls>>

ChangeStatus(record_id, new_status, auto_handle_conflicts) ==
    /\ \E res \in change_record_status(
                     StatusStore(records, status_history, relationships),
                     record_id, new_status, NULL, auto_handle_conflicts) :
          /\ res.outcome = "ok"
          /\ records' = res.st.records
          /\ status_history' = res.st.status_history
          /\ relationships' = res.st.relationships
          /\ last' = Call("changeStatus", record_id, new_status, auto_handle_conflicts,
                          0, NoFields, res.affected_records, Store)
    /\ UNCHANGED <<record_versions, changelog, calls>>

CreateRecord(decision_id, status) == CreateRecordWithin(MaxRecords, decision_id, status)

UpdateContentWithin(limit, record_id, input) ==
    /\ RecordExists(records, record_id)
    /\ records[record_id].version < limit
    /\ LET res == update_content(ContentStore(records, record_versions, changelog),
                                 record_id, input)
       IN  /\ res.outcome = "ok"
           /\ records' = res.st.records
           /\ record_versions' = res.st.record_versions
           /\ changelog' = res.st.changelog
           /\ last' = Call("updateContent", record_id, NULL, FALSE, 0, input, <<>>, Store)
    /\ UNCHANGED <<status_history, relationships, calls>>

UpdateContent(record_id, input) == UpdateContentWithin(MaxVersion, record_id, input)

RevertToVersionWithin(limit, record_id, version) ==
    /\ RecordExists(records, record_id)
    /\ records[record_id].version < limit
    /\ LET res == revert_to_version(ContentStore(records, record_versions, changelog),
                                    record_id, version, NULL)
       IN  /\ res.outcome = "ok"
           /\ records' = res.st.records
           /\ record_versions' = res.st.record_versions
           /\ changelog' = res.st.changelog
           /\ last' = Call("revertToVersion", record_id, NULL, FALSE, version, NoFields,
                           <<>>, Store)
    /\ UNCHANGED <<status_history, relationships, calls>>

RevertToVersion(record_id, version) == RevertToVersionWithin(MaxVersion, record_id, version)

\* Service calls run one at a time: records are created and their status changed.
Next ==
    \/ \E d \in Decisions \cup {NoSuchDecision}, s \in RequestStatuses \cup {NULL} :
          CreateRecord(d, s) /\ Untimed
    \/ \E r \in RecordIds, s \in RequestStatuses, a \in BOOLEAN :
          ChangeStatus(r, s, a) /\ Untimed

Spec == Init /\ [][Next]_vars

\* The same calls on one Decision that holds up to MaxSiblings records.
NextSiblings ==
    \/ \E s \in Statuses \cup {NULL} : CreateRecordWithin(MaxSiblings, "D1", s) /\ Untimed
    \/ \E r \in 1..MaxSiblings, s \in Statuses, a \in BOOLEAN :
          ChangeStatus(r, s, a) /\ Untimed

SpecSiblings == Init /\ [][NextSiblings]_vars

\* All four calls, run one at a time, on up to MaxContentRecords records whose
\* content goes through up to MaxVersion versions.
NextContent ==
    \/ \E s \in {NULL, "proposed", "accepted", "implemented"} :
          CreateRecordWithin(MaxContentRecords, "D1", s) /\ Untimed
    \/ \E r \in 1..MaxContentRecords, s \in {"rejected", "deprecated"}, a \in BOOLEAN :
          ChangeStatus(r, s, a) /\ Untimed
    \/ \E r \in 1..MaxContentRecords, i \in UpdateInputs : UpdateContent(r, i) /\ Untimed
    \/ \E r \in 1..MaxContentRecords, v \in 1..MaxVersion :
          RevertToVersion(r, v) /\ Untimed

SpecContent == Init /\ [][NextContent]_vars

\* ------------------------------------------------------------ SpecSteps
\* change_record_status one store call at a time.  Every DatabaseService method
\* commits before it returns, so what a step wrote stays written whatever
\* happens to the call afterwards.
AllIdle == \A c \in Callers : calls[c].pc = "idle"

WritePcs ==
    {"cascade_status", "cascade_history", "cascade_relationship",
     "primary_status", "primary_history"}

Raise(frame, error) == [frame EXCEPT !.pc = "raised", !.outcome = error]

AfterValidation_PromoteFirst(new_status) == "primary_status"

AfterValidation(new_status) ==
    IF new_status = "accepted" THEN "lookup_accepted"
    ELSE IF new_status = "implemented" THEN "lookup_implemented"
    ELSE "primary_status"

\* Lines 497-513: read the record, validate the status and the transition.
Begin(c, record_id, new_status, auto_handle_conflicts) ==
    /\ calls[c].pc = "idle"
    /\ LET frame == [IdleFrame EXCEPT !.record_id = record_id, !.new_status = new_status,
                                      !.auto_handle_conflicts = auto_handle_conflicts,
                                      !.before = Store]
       IN  calls' = [calls EXCEPT ![c] =
              IF ~RecordExists(records, record_id) THEN Raise(frame, "NotFound")
              ELSE IF new_status \notin Statuses THEN Raise(frame, "InvalidStatus")
              ELSE IF ~is_valid_transition(records[record_id].status, new_status)
                THEN Raise(frame, "InvalidTransition")
              ELSE [frame EXCEPT !.old_status = records[record_id].status,
                                 !.decision_id = records[record_id].decision_id,
                                 !.pc = AfterValidation(new_status)]]
    /\ UNCHANGED <<records, status_history, relationships, record_versions, changelog, last>>

StartCascade(frame, sibling, to_status, reason, next) ==
    [frame EXCEPT !.pc = "cascade_status", !.sibling = sibling,
                  !.sibling_status = records[sibling].status, !.cascade_to = to_status,
                  !.reason = reason, !.next = next]

\* Lines 517-519 and 544-547: the lookup of the accepted record when accepting.
LookupAccepted(c) ==
    /\ calls[c].pc = "lookup_accepted"
    /\ LET frame == calls[c]
           cands == get_current_accepted_record(records, frame.decision_id)
       IN  IF cands = {}
             THEN calls' = [calls EXCEPT ![c].pc = "primary_status"]
             ELSE \E current_accepted \in cands :
                    calls' = [calls EXCEPT ![c] =
                       IF current_accepted # frame.record_id
                         THEN IF frame.auto_handle_conflicts
                                THEN StartCascade(frame, current_accepted, "rejected",
                                                  ReasonAutoRejected, "primary_status")
                                ELSE Raise(frame, "Conflict")
                         ELSE [frame EXCEPT !.pc = "primary_status"]]
    /\ UNCHANGED <<records, status_history, relationships, record_versions, changelog, last>>

\* Lines 551-553 and 578-581: the lookup of the implemented record.
LookupImplemented(c) ==
    /\ calls[c].pc = "lookup_implemented"
    /\ LET frame == calls[c]
           cands == get_current_implemented_record(records, frame.decision_id)
       IN  IF cands = {}
             THEN calls' = [calls EXCEPT ![c].pc = "lookup_accepted_on_implement"]
             ELSE \E current_implemented \in cands :
                    calls' = [calls EXCEPT ![c] =
                       IF current_implemented # frame.record_id
                         THEN IF frame.auto_handle_conflicts
                                THEN StartCascade(frame, current_implemented, "deprecated",
                                                  ReasonAutoDeprecated,
                                                  "lookup_accepted_on_implement")
                                ELSE Raise(frame, "Conflict")
                         ELSE [frame EXCEPT !.pc = "lookup_accepted_on_implement"]]
    /\ UNCHANGED <<records, status_history, relationships, record_versions, changelog, last>>

\* Lines 584-586: the lookup of the accepted record when implementing.
LookupAcceptedOnImplement(c) ==
    /\ calls[c].pc = "lookup_accepted_on_implement"
    /\ LET frame == calls[c]
           cands == get_current_accepted_record(records, frame.decision_id)
       IN  IF cands = {}
             THEN calls' = [calls EXCEPT ![c].pc = "primary_status"]
             ELSE \E current_accepted \in cands :
                    calls' = [calls EXCEPT ![c] =
                       IF current_accepted # frame.record_id /\ frame.auto_handle_conflicts
                         THEN StartCascade(frame, current_accepted, "deprecated",
                                           ReasonAutoDeprecated, "primary_status")
                         ELSE [frame EXCEPT !.pc = "primary_status"]]
    /\ UNCHANGED <<records, status_history, relationships, record_versions, changelog, last>>

\* Lines 520-523, 554-557, 587-590: the sibling's status.
CascadeStatus(c) ==
    /\ calls[c].pc = "cascade_status"
    /\ records' = update_decision_record_status(records, calls[c].sibling, calls[c].cascade_to)
    /\ calls' = [calls EXCEPT ![c].pc = "cascade_history"]
    /\ UNCHANGED <<status_history, relationships, record_versions, changelog, last>>

\* Lines 524-534, 558-568, 591-601: the sibling's StatusHistory row; from_status
\* is the status of the row the lookup returned.
CascadeHistory(c) ==
    /\ calls[c].pc = "cascade_history"
    /\ status_history' =
          create_status_history(status_history, calls[c].sibling,
              StatusHistoryRow(calls[c].sibling_status, calls[c].cascade_to, calls[c].reason,
                               AutomaticMetadata(calls[c].record_id)))
    /\ calls' = [calls EXCEPT ![c].pc = "cascade_relationship"]
    /\ UNCHANGED <<records, relationships, record_versions, changelog, last>>

\* Lines 536-543, 570-577, 603-610: the superseded_by edge, then affected_records.
CascadeRelationship(c) ==
    /\ calls[c].pc = "cascade_relationship"
    /\ relationships' =
          create_relationship(relationships,
              RelationshipRow(calls[c].sibling, calls[c].record_id, "superseded_by"))
    /\ calls' = [calls EXCEPT ![c].pc = calls[c].next,
                              ![c].affected_records = Append(@, calls[c].sibling)]
    /\ UNCHANGED <<records, status_history, record_versions, changelog, last>>

\* Line 613: the record's own status.
PrimaryStatus(c) ==
    /\ calls[c].pc = "primary_status"
    /\ records' = update_decision_record_status(records, calls[c].record_id, calls[c].new_status)
    /\ calls' = [calls EXCEPT ![c].pc = "primary_history"]
    /\ UNCHANGED <<status_history, relationships, record_versions, changelog, last>>

\* Lines 616-632: the record's StatusHistory row; the call then reads the record
\* back and returns.
PrimaryHistory(c) ==
    /\ calls[c].pc = "primary_history"
    /\ status_history' =
          create_status_history(status_history, calls[c].record_id,
              StatusHistoryRow(calls[c].old_status, calls[c].new_status, NULL, NoMetadata))
    /\ calls' = [calls EXCEPT ![c].pc = "done", ![c].outcome = "ok"]
    /\ UNCHANGED <<records, relationships, record_versions, changelog, last>>

\* A store write raises (connection lost, statement refused): get_connection
\* rolls back that statement alone and the exception leaves the call; nothing
\* in the call undoes the writes already committed.
StoreWriteFails(c) ==
    /\ calls[c].pc \in WritePcs
    /\ calls' = [calls EXCEPT ![c] = Raise(@, "StoreError")]
    /\ UNCHANGED <<records, status_history, relationships, record_versions, changelog, last>>

\* Records are created (under one Decision) before the callers start; then the
\* callers run one change_record_status each, their store calls interleaved in
\* any order.
NextSteps ==
    \/ \E s \in Statuses : AllIdle /\ CreateRecord("D1", s) /\ Untimed
    \/ \E c \in Callers, r \in RecordIds, s \in RequestStatuses, a \in BOOLEAN :
          Begin(c, r, s, a) /\ Untimed
    \/ \E c \in Callers : LookupAccepted(c) /\ Untimed
    \/ \E c \in Callers : LookupImplemented(c) /\ Untimed
    \/ \E c \in Callers : LookupAcceptedOnImplement(c) /\ Untimed
    \/ \E c \in Callers : CascadeStatus(c) /\ Untimed
    \/ \E c \in Callers : CascadeHistory(c) /\ Untimed
    \/ \E c \in Callers : CascadeRelationship(c) /\ Untimed
    \/ \E c \in Callers : PrimaryStatus(c) /\ Untimed
    \/ \E c \in Callers : PrimaryHistory(c) /\ Untimed
    \/ \E c \in Callers : StoreWriteFails(c) /\ Untimed

SpecSteps == Init /\ [][NextSteps]_vars

\* ----------------------------------------------------- SpecContentSteps
\* update_decision_record and revert_to_version one store call at a time.  The
\* service holds no lock and no transaction across a call: each store call
\* commits on its own, and what a caller loaded stays in its frame.
ContentPcs ==
    {"load_current", "check_snapshot", "create_snapshot", "write_record", "write_changelog"}

ContentFrame ==
    [pc |-> "idle", op |-> "none", record_id |-> 0, input |-> NoFields, version |-> 0,
     target_snapshot |-> NULL, current_record |-> NULL, record_data |-> <<>>,
     changes |-> <<>>, version_returned |-> <<>>]

\* A call that has returned or raised keeps none of its locals: its caller is
\* idle again.
Returned == IdleFrame

\* The interleaved calls all address one record: what is examined is what
\* calls on the same record do to each other.
StepRecordIds == {1}

\* The content calls that have loaded or are about to load record_id and have
\* not returned.
InFlight(record_id) ==
    Cardinality({c \in Callers :
                    calls[c].pc \in ContentPcs /\ calls[c].record_id = record_id})

\* The explored calls stop once a record has had MaxStepEdits content changes.
RoomFor(record_id) ==
    RecordExists(records, record_id)
        => Len(changelog[record_id]) + InFlight(record_id) < MaxStepEdits

StepInputs == {InputOf("rationale", "a"), InputOf("rationale", "b"), InputOf("context", "a")}

\* Lines 320-363 of update_decision_record: load the record, build record_data
\* and changes, return early when nothing changes.
BeginUpdate(c, record_id, input) ==
    /\ calls[c].pc = "idle"
    /\ RoomFor(record_id)
    /\ LET frame == [ContentFrame EXCEPT !.op = "updateContent", !.record_id = record_id,
                                         !.input = input]
       IN  calls' = [calls EXCEPT ![c] =
              IF ~RecordExists(records, record_id)
                THEN Returned
              ELSE
                LET current_record == records[record_id]
                    supplied == {f \in Fields : input[f] # NULL}
                    changes == ChangesBetween(current_record.content, input, supplied)
                IN  IF supplied = {} \/ DOMAIN changes = {}
                      THEN Returned
                      ELSE [frame EXCEPT !.pc = "check_snapshot",
                                         !.current_record = current_record,
                                         !.record_data = [f \in supplied |-> input[f]],
                                         !.changes = changes]]
    /\ UNCHANGED <<records, status_history, relationships, record_versions, changelog, last>>

\* Lines 809-812 of revert_to_version: read the target snapshot.
BeginRevert(c, record_id, version) ==
    /\ calls[c].pc = "idle"
    /\ RoomFor(record_id)
    /\ LET frame == [ContentFrame EXCEPT !.op = "revertToVersion", !.record_id = record_id,
                                         !.version = version]
           target_snapshot == get_record_at_version(record_versions, record_id, version)
       IN  calls' = [calls EXCEPT ![c] =
              IF ~HasVersion(record_versions, record_id, version)
                THEN Returned
                ELSE [frame EXCEPT !.pc = "load_current",
                                   !.target_snapshot = target_snapshot]]
    /\ UNCHANGED <<records, status_history, relationships, record_versions, changelog, last>>

\* Lines 815-820 and 841-853 of revert_to_version: read the live record; the
\* update data and the changes are computed from what was read.
LoadCurrent(c) ==
    /\ calls[c].pc = "load_current"
    /\ LET frame == calls[c]
       IN  calls' = [calls EXCEPT ![c] =
              IF ~RecordExists(records, frame.record_id)
                THEN Returned
                ELSE
                  LET current_record == records[frame.record_id]
                  IN  [frame EXCEPT
                          !.pc = "check_snapshot",
                          !.current_record = current_record,
                          !.record_data =
                              [f \in Fields |-> frame.target_snapshot.content[f]],
                          !.changes = ChangesBetween(current_record.content,
                                                     frame.target_snapshot.content,
                                                     Fields)]]
    /\ UNCHANGED <<records, status_history, relationships, record_versions, changelog, last>>

\* Lines 371-372 and 828-829: is there a snapshot of the version that was read?
CheckSnapshot(c) ==
    /\ calls[c].pc = "check_snapshot"
    /\ calls' = [calls EXCEPT ![c].pc =
          IF HasVersion(record_versions, calls[c].record_id, calls[c].current_record.version)
            THEN "write_record"
            ELSE "create_snapshot"]
    /\ UNCHANGED <<records, status_history, relationships, record_versions, changelog, last>>

\* Lines 373-386 and 830-843: the snapshot of the record as it was read.
CreateSnapshot(c) ==
    /\ calls[c].pc = "create_snapshot"
    /\ LET frame == calls[c]
           row == RecordVersionRow(frame.record_id, frame.current_record.version,
                                   SnapshotOf(frame.current_record))
       IN  /\ record_versions' = create_record_version(record_versions, row)
           /\ calls' = [calls EXCEPT
                 ![c].pc = "write_record",
                 ![c].version_returned =
                     <<[rowcount |-> create_record_version_rowcount(record_versions, row),
                        row |-> create_record_version_returns(record_versions, row)]>>]
    /\ UNCHANGED <<records, status_history, relationships, changelog, last>>

\* Lines 388-390 and 856: the UPDATE, with version = the version read + 1.
WriteRecord(c) ==
    /\ calls[c].pc = "write_record"
    /\ records' = update_decision_record(records, calls[c].record_id, calls[c].record_data,
                                         calls[c].current_record.version + 1)
    /\ calls' = [calls EXCEPT ![c].pc = "write_changelog", ![c].version_returned = <<>>]
    /\ UNCHANGED <<status_history, relationships, record_versions, changelog, last>>

\* Lines 392-401 and 858-867: the changelog row; the call then returns.
WriteChangelog(c) ==
    /\ calls[c].pc = "write_changelog"
    /\ LET frame == calls[c]
           current_version == frame.current_record.version
       IN  changelog' =
              create_changelog_entry(changelog, frame.record_id,
                  ChangelogRow(current_version, current_version + 1, frame.changes,
                      IF frame.op = "updateContent"
                        THEN UpdatedSummary(DOMAIN frame.changes)
                        ELSE RevertedSummary(frame.version, NULL)))
    /\ calls' = [calls EXCEPT ![c] = Returned]
    /\ UNCHANGED <<records, status_history, relationships, record_versions, last>>

\* Records are created before the callers start; then the callers run content
\* calls, their store calls interleaved in any order.
NextContentSteps ==
    \/ AllIdle /\ CreateRecordWithin(Cardinality(StepRecordIds), "D1", NULL) /\ Untimed
    \/ \E c \in Callers, r \in StepRecordIds, i \in StepInputs :
          BeginUpdate(c, r, i) /\ Untimed
    \/ \E c \in Callers, r \in StepRecordIds, v \in 1..MaxStepEdits :
          BeginRevert(c, r, v) /\ Untimed
    \/ \E c \in Callers : LoadCurrent(c) /\ Untimed
    \/ \E c \in Callers : CheckSnapshot(c) /\ Untimed
    \/ \E c \in Callers : CreateSnapshot(c) /\ Untimed
    \/ \E c \in Callers : WriteRecord(c) /\ Untimed
    \/ \E c \in Callers : WriteChangelog(c) /\ Untimed

SpecContentSteps == Init /\ [][NextContentSteps]_vars

\* The content of one record edited up to MaxStepEdits times, calls run one at a
\* time: updates of one field with two values, of another field, of both
\* fields at once, and reverts to every version.
EditInputs ==
    {InputOf("rationale", "a"), InputOf("rationale", "b"), InputOf("context", "a"),
     [InputOf("rationale", "b") EXCEPT !["context"] = "a"]}

NextEdits ==
    \/ CreateRecordWithin(Cardinality(StepRecordIds), "D1", NULL) /\ Untimed
    \/ \E r \in StepRecordIds, i \in EditInputs :
          UpdateContentWithin(MaxStepEdits + 1, r, i) /\ Untimed
    \/ \E r \in StepRecordIds, v \in 1..MaxStepEdits :
          RevertToVersionWithin(MaxStepEdits + 1, r, v) /\ Untimed

SpecEdits == Init /\ [][NextEdits]_vars

\* ------------------------------------------------------------- timeline
\* The store's clock as far as the rows show it: the latest timestamp given out.
Now ==
    LET given == {timestamps.records[r] : r \in DOMAIN timestamps.records}
                 \cup UNION {{timestamps.status_history[r][k] :
                                 k \in DOMAIN timestamps.status_history[r]} :
                              r \in DOMAIN timestamps.status_history}
                 \cup UNION {{timestamps.changelog[r][k] :
                                 k \in DOMAIN timestamps.changelog[r]} :
                              r \in DOMAIN timestamps.changelog}
    IN  IF given = {} THEN 0 ELSE CHOOSE t \in given : \A u \in given : u <= t

\* The rows with a timestamp column that a call inserted, in the order of its
\* INSERTs: <<table, record id>>.
InsertedRows(call) ==
    IF call.op = "createRecord"
      THEN <<<<"records", call.record_id>>, <<"status_history", call.record_id>>>>
    ELSE IF call.op = "changeStatus"
      THEN [i \in 1..Len(call.affected_records) |->
               <<"status_history", call.affected_records[i]>>]
           \o <<<<"status_history", call.record_id>>>>
    ELSE <<<<"changelog", call.record_id>>>>

\* Each INSERT takes the clock's reading as the row's timestamp.  The clock does
\* not go back, and two INSERTs may read the same value: of the rows of one
\* call the first `same` read what the clock last showed, the others the next
\* value.
StampOf(i, same, now) == IF i <= same THEN now ELSE now + 1

StampTable(old, table, rows, size, same, now) ==
    [r \in 1..size |->
        LET before == IF r \in DOMAIN old THEN old[r] ELSE <<>>
            at == {i \in DOMAIN rows : rows[i] = <<table, r>>}
        IN  IF at = {} THEN before
            ELSE Append(before, StampOf(CHOOSE i \in at : TRUE, same, now))]

Timed ==
    LET rows == InsertedRows(last')
    IN  \E same \in 0..Len(rows) :
           timestamps' =
              [records |->
                   IF last'.op = "createRecord"
                     THEN Append(timestamps.records, StampOf(1, same, Now))
                     ELSE timestamps.records,
               status_history |->
                   StampTable(timestamps.status_history, "status_history", rows,
                              Len(records'), same, Now),
               changelog |->
                   StampTable(timestamps.changelog, "changelog", rows,
                              Len(records'), same, Now)]

\* A SELECT returns rows that its ORDER BY does not tell apart (all rows, when
\* it has none) in an order the store chooses: by row, forwards or backwards,
\* are the two orders explored.
RowOrders == {"forward", "backward"}

RowBefore(row_order, x, y) ==
    LET lower == x.record_id < y.record_id \/ (x.record_id = y.record_id /\ x.k < y.k)
    IN  IF row_order = "forward" THEN lower ELSE (x # y /\ ~lower)

\* A row the timeline reads: its table, its record and its place in the
\* record's rows.
TimelineRow(table, record_id, k) == [table |-> table, record_id |-> record_id, k |-> k]

TimestampOf(ts, row) ==
    IF row.table = "records" THEN ts.records[row.record_id]
    ELSE ts[row.table][row.record_id][row.k]

\* The rows of S as a SELECT returns them: by timestamp when the query has an
\* ORDER BY, rows it does not tell apart in the store's row order.
SeqBy(S, ts, order_by, row_order) ==
    LET Before(x, y) ==
            \/ order_by /\ TimestampOf(ts, x) < TimestampOf(ts, y)
            \/ /\ order_by => TimestampOf(ts, x) = TimestampOf(ts, y)
               /\ RowBefore(row_order, x, y)
    IN  [i \in 1..Cardinality(S) |->
            CHOOSE e \in S : Cardinality({x \in S : Before(x, e)}) = i - 1]

TimelineEvent(event_type, timestamp, record_id, record_version, description, details) ==
    [event_type |-> event_type, timestamp |-> timestamp, record_id |-> record_id,
     record_version |-> record_version, decision_description |-> description,
     details |-> details]

\* The event built from a row; the record columns come from decision_records
\* as it is now.
EventOf(st, ts, row) ==
    LET record == st.records[row.record_id]
        description == record.content.decision_description
    IN  IF row.table = "records"
          THEN TimelineEvent("record_created", TimestampOf(ts, row), row.record_id,
                             record.version, description,
                             [initial_status |-> record.status])
        ELSE IF row.table = "status_history"
          THEN LET sh == st.status_history[row.record_id][row.k]
               IN  TimelineEvent("status_change", TimestampOf(ts, row), row.record_id,
                                 record.version, description,
                                 [from_status |-> sh.from_status,
                                  to_status |-> sh.to_status,
                                  reason |-> sh.reason,
                                  metadata |-> sh.metadata,
                                  is_automatic |-> sh.metadata.change_type = "automatic"])
        ELSE LET cl == st.changelog[row.record_id][row.k]
             IN  TimelineEvent("content_change", TimestampOf(ts, row), row.record_id,
                               cl.to_version, description,
                               [from_version |-> cl.from_version,
                                to_version |-> cl.to_version,
                                summary |-> cl.summary,
                                changes |-> cl.changes])

\* events.sort(key=timestamp, reverse=True): the sort is stable, so events of
\* equal timestamp keep the order they were appended in.
SortNewestFirst(events) ==
    [i \in DOMAIN events |->
        events[CHOOSE j \in DOMAIN events :
                  Cardinality({k \in DOMAIN events :
                                 \/ events[k].timestamp > events[j].timestamp
                                 \/ (events[k].timestamp = events[j].timestamp /\ k < j)})
                     = i - 1]]

get_decision_timeline_events_WithCreationEntry(st, ts, decision_id, row_order) ==
    LET record_ids == {r \in DOMAIN st.records : st.records[r].decision_id = decision_id}
        created ==
            SeqBy({TimelineRow("records", r, 0) : r \in record_ids}, ts, FALSE, row_order)
        status_rows ==
            SeqBy(UNION {{TimelineRow("status_history", r, k) :
                             k \in DOMAIN st.status_history[r]} : r \in record_ids},
                  ts, TRUE, row_order)
        changelog_rows ==
            SeqBy(UNION {{TimelineRow("changelog", r, k) : k \in DOMAIN st.changelog[r]} :
                         r \in record_ids},
                  ts, TRUE, row_order)
        rows == created \o status_rows \o changelog_rows
    IN  IF record_ids = {} THEN <<>>
        ELSE SortNewestFirst([i \in DOMAIN rows |-> EventOf(st, ts, rows[i])])

\* DatabaseService.get_decision_timeline_events: the record_created events,
\* then the status history rows with a from_status (ORDER BY changed_at), then
\* the changelog rows (ORDER BY changed_at), sorted newest first.
get_decision_timeline_events(st, ts, decision_id, row_order) ==
    LET record_ids == {r \in DOMAIN st.records : st.records[r].decision_id = decision_id}
        created ==
            SeqBy({TimelineRow("records", r, 0) : r \in record_ids}, ts, FALSE, row_order)
        status_rows ==
            SeqBy(UNION {{TimelineRow("status_history", r, k) :
                             k \in {j \in DOMAIN st.status_history[r] :
                                       st.status_history[r][j].from_status # NULL}} :
                         r \in record_ids},
                  ts, TRUE, row_order)
        changelog_rows ==
            SeqBy(UNION {{TimelineRow("changelog", r, k) : k \in DOMAIN st.changelog[r]} :
                         r \in record_ids},
                  ts, TRUE, row_order)
        rows == created \o status_rows \o changelog_rows
    IN  IF record_ids = {} THEN <<>>
        ELSE SortNewestFirst([i \in DOMAIN rows |-> EventOf(st, ts, rows[i])])

\* DecisionService.get_decision_timeline: ValueError when the Decision does not
\* exist, else the events and their number.
\* The date key of a timestamp: the day it falls on.
DateOf(timestamp) == timestamp \div TicksPerDay

\* grouped_by_date: for each date key, the places in `events` of the events of
\* that day.
GroupedByDate(events) ==
    [date_key \in {DateOf(events[i].timestamp) : i \in DOMAIN events} |->
        {i \in DOMAIN events : DateOf(events[i].timestamp) = date_key}]

MarkConcurrent_CountsTheOthers(events) ==
    [i \in DOMAIN events |->
        LET date_events == GroupedByDate(events)[DateOf(events[i].timestamp)]
            ts_events == {j \in date_events : events[j].timestamp = events[i].timestamp}
        IN  IF Cardinality(ts_events) > 1
              THEN events[i] @@ [has_concurrent_events |-> TRUE,
                                 concurrent_count |-> Cardinality(ts_events) - 1]
              ELSE events[i]]

\* Within each day the events are grouped by their exact timestamp, and every
\* event of a group of more than one is marked with the size of the group.
MarkConcurrent(events) ==
    [i \in DOMAIN events |->
        LET date_events == GroupedByDate(events)[DateOf(events[i].timestamp)]
            ts_events == {j \in date_events : events[j].timestamp = events[i].timestamp}
        IN  IF Cardinality(ts_events) > 1
              THEN events[i] @@ [has_concurrent_events |-> TRUE,
                                 concurrent_count |-> Cardinality(ts_events)]
              ELSE events[i]]

get_decision_timeline(st, ts, decision_id, row_order) ==
    IF decision_id \notin Decisions
      THEN [outcome |-> "NotFound", decision_id |-> decision_id, total_events |-> 0,
            events |-> <<>>, grouped_by_date |-> <<>>]
      ELSE LET events == get_decision_timeline_events(st, ts, decision_id, row_order)
           IN  [outcome |-> "ok", decision_id |-> decision_id,
                total_events |-> Len(events), events |-> MarkConcurrent(events),
                grouped_by_date |-> GroupedByDate(events)]

\* The calls that have written so far: one per record, per changelog row and
\* per status history row that is neither the creation-time row nor a cascaded
\* one.
CallsMade ==
    Len(records)
    + Cardinality(UNION {{<<r, k>> : k \in DOMAIN changelog[r]} : r \in DOMAIN changelog})
    + Cardinality(UNION {{<<r, k>> :
                            k \in {j \in DOMAIN status_history[r] :
                                      /\ status_history[r][j].from_status # NULL
                                      /\ status_history[r][j].metadata = NoMetadata}} :
                         r \in DOMAIN status_history})

\* Up to MaxTimelineCalls calls run one at a time on up to MaxTimelineRecords
\* records of two Decisions, every inserted row taking its timestamp.
NextTimeline ==
    \/ \E d \in Decisions :
          /\ CallsMade < MaxTimelineCalls
          /\ CreateRecordWithin(MaxTimelineRecords, d, NULL) /\ Timed
    \/ \E r \in 1..MaxTimelineRecords, s \in {"accepted", "rejected"} :
          /\ CallsMade < MaxTimelineCalls
          /\ ChangeStatus(r, s, TRUE) /\ Timed
    \/ \E r \in 1..MaxTimelineRecords :
          /\ CallsMade < MaxTimelineCalls
          /\ UpdateContent(r, InputOf("rationale", "a")) /\ Timed

SpecTimeline == Init /\ [][NextTimeline]_vars

\* ------------------------------------------------- SpecRelationships
\* The relationship tool of the MCP server (manage_decision_record_relationship)
\* over the relationship calls of the service.  The source and the target are
\* named by Decision title and description and resolved to records first; a
\* record that is not found ends the call with an error.
ToolResult(error, rels) == [error |-> error, relationships |-> rels]

ToolModes == {"create", "update", "delete"}

\* matching = the outgoing rows of the source that point at the target, and
\* that have the given type when one is given.
MatchingRelationships(rels, source, target, relationship_type) ==
    {i \in outgoing_relationships(rels, source) :
        /\ rels[i].target_record_id = target
        /\ relationship_type \notin Falsy => rels[i].relationship_type = relationship_type}

manage_relationship_FirstMatch(recs, rels, mode, source, target, relationship_type, description, new_type) ==
    IF mode \notin ToolModes THEN ToolResult("BadMode", rels)
    ELSE IF mode \in {"create", "update"} /\ relationship_type \in Falsy
      THEN ToolResult("TypeRequired", rels)
    ELSE IF ~RecordExists(recs, source) \/ ~RecordExists(recs, target)
      THEN ToolResult("NotFound", rels)
    ELSE IF mode = "create"
      THEN ToolResult("none",
              create_relationship(rels,
                  DescribedRelationshipRow(source, target, relationship_type, description)))
    ELSE
      LET matching == MatchingRelationships(rels, source, target, relationship_type)
      IN  IF matching = {} THEN ToolResult("NoMatch", rels)
          ELSE LET relationship_id == CHOOSE i \in matching : \A j \in matching : i <= j
               IN  IF mode = "delete"
                     THEN ToolResult("none", delete_relationship(rels, relationship_id))
                   ELSE IF description \in Falsy /\ new_type \in Falsy
                     THEN ToolResult("NothingToUpdate", rels)
                   ELSE ToolResult("none",
                           update_relationship(rels, relationship_id, new_type, description))

\* server.py, name == "manage_decision_record_relationship".
manage_relationship(recs, rels, mode, source, target, relationship_type, description, new_type) ==
    IF mode \notin ToolModes THEN ToolResult("BadMode", rels)
    ELSE IF mode \in {"create", "update"} /\ relationship_type \in Falsy
      THEN ToolResult("TypeRequired", rels)
    ELSE IF ~RecordExists(recs, source) \/ ~RecordExists(recs, target)
      THEN ToolResult("NotFound", rels)
    ELSE IF mode = "create"
      THEN ToolResult("none",
              create_relationship(rels,
                  DescribedRelationshipRow(source, target, relationship_type, description)))
    ELSE
      LET matching == MatchingRelationships(rels, source, target, relationship_type)
      IN  IF matching = {} THEN ToolResult("NoMatch", rels)
          ELSE IF Cardinality(matching) > 1 THEN ToolResult("Multiple", rels)
          ELSE LET relationship_id == CHOOSE i \in matching : TRUE
               IN  IF mode = "delete"
                     THEN ToolResult("none", delete_relationship(rels, relationship_id))
                   ELSE IF description \in Falsy /\ new_type \in Falsy
                     THEN ToolResult("NothingToUpdate", rels)
                   ELSE ToolResult("none",
                           update_relationship(rels, relationship_id, new_type, description))

\* The arguments explored.
RelationshipTypes == {"superseded_by", "related_to"}

Descriptions == {NULL, "x"}

NewTypes == {NULL, "related_to"}

\* The name a call of the tool is recorded under.
ToolOp(mode) ==
    IF mode = "create" THEN "createRelationship"
    ELSE IF mode = "update" THEN "updateRelationship"
    ELSE "deleteRelationship"

\* One call of the tool that returns without an error.
ManageRelationship(mode, source, target, relationship_type, description, new_type) ==
    /\ mode = "create" => Len(relationships) < MaxRelationships
    /\ LET res == manage_relationship(records, relationships, mode, source, target,
                                       relationship_type, description, new_type)
       IN  /\ res.error = "none"
           /\ relationships' = res.relationships
           /\ last' = Call(ToolOp(mode), source, NULL, FALSE, 0, NoFields, <<target>>, Store)
    /\ UNCHANGED <<records, status_history, record_versions, changelog, calls>>

\* The pair of records the tool is called on, and the arguments it is given: a
\* relationship is created without a description and may get one by an update.
ToolPairs == {<<1, 2>>}

ToolArguments ==
    {a \in [mode : ToolModes, relationship_type : RelationshipTypes \cup {NULL},
            description : Descriptions, new_type : NewTypes] :
        a.mode = "create" => a.description = NULL}

\* Records are created proposed, accepted and implemented (cascades write
\* their superseded_by edges), and the tool creates, updates and deletes edges.
NextRelationships ==
    \/ \E d \in Decisions : CreateRecord(d, NULL) /\ Untimed
    \/ \E r \in RecordIds, s \in {"accepted", "implemented"} :
          ChangeStatus(r, s, TRUE) /\ Untimed
    \/ \E pair \in ToolPairs, a \in ToolArguments :
          /\ ManageRelationship(a.mode, pair[1], pair[2], a.relationship_type,
                                a.description, a.new_type)
          /\ Untimed

SpecRelationships == Init /\ [][NextRelationships]_vars

\* The same calls on the records of one Decision.
NextTool ==
    \/ CreateRecord("D1", NULL) /\ Untimed
    \/ \E r \in RecordIds, s \in {"accepted", "implemented"} :
          ChangeStatus(r, s, TRUE) /\ Untimed
    \/ \E pair \in ToolPairs, a \in ToolArguments :
          /\ ManageRelationship(a.mode, pair[1], pair[2], a.relationship_type,
                                a.description, a.new_type)
          /\ Untimed

SpecTool == Init /\ [][NextTool]_vars

\* ================================================================ claims
ExistingIds == 1..Len(records)

CurrentStatusStore == StatusStore(records, status_history, relationships)

AcceptedIn(recs, d) ==
    {r \in 1..Len(recs) : recs[r].decision_id = d /\ recs[r].status = "accepted"}

ImplementedIn(recs, d) ==
    {r \in 1..Len(recs) :
        recs[r].decision_id = d /\ recs[r].status \in {"implemented", "implemented_inferred"}}

\* The records of `recs` other than record_id under record_id's Decision.
SiblingsOf(recs, record_id) ==
    {r \in 1..Len(recs) : r # record_id /\ recs[r].decision_id = recs[record_id].decision_id}

\* The transition table as the specification states it.
TableEdges ==
    {<<"proposed", "accepted">>, <<"proposed", "rejected">>,
     <<"accepted", "implemented">>, <<"accepted", "rejected">>, <<"accepted", "deprecated">>,
     <<"implemented", "deprecated">>, <<"implemented_inferred", "deprecated">>}

Terminal == {"rejected", "deprecated"}

\* The last call was a change_record_status that returned.
StatusChanged == last.op = "changeStatus"

\* C1: after any sequence of calls run one at a time, every Decision has at most
\* one accepted record and at most one record that is implemented or
\* implemented_inferred.
C1_AtMostOneAcceptedAndImplemented ==
    \A d \in Decisions :
        /\ Cardinality(AcceptedIn(records, d)) <= 1
        /\ Cardinality(ImplementedIn(records, d)) <= 1

\* C3: change_record_status(r, s) returns only along an edge of the table; for
\* every other pair of recognised statuses (s equal to the current status
\* included) it raises InvalidTransition and the records, the StatusHistory and
\* the relationships stay as they were.
C3_OnlyTableEdges ==
    /\ StatusChanged =>
          /\ <<last.before.records[last.record_id].status, last.status>> \in TableEdges
          /\ records[last.record_id].status = last.status
    /\ \A r \in ExistingIds, s \in Statuses, a \in BOOLEAN :
          LET out == change_record_status(CurrentStatusStore, r, s, NULL, a)
          IN  IF <<records[r].status, s>> \in TableEdges
                THEN \A res \in out : res.outcome \in {"ok", "Conflict"}
                ELSE out = {StatusResult("InvalidTransition", CurrentStatusStore, <<>>)}

\* C3 witness: a status change along an edge has returned, and in the state it
\* left, a request that is no edge (a self-transition) fails with InvalidTransition.
C3_Witness ==
    /\ StatusChanged
    /\ \E r \in ExistingIds :
          change_record_status(CurrentStatusStore, r, records[r].status, NULL, TRUE)
             = {StatusResult("InvalidTransition", CurrentStatusStore, <<>>)}

\* C4: once a record is rejected or deprecated no later call changes its status:
\* no step, direct or cascaded, changes it, and a direct request on it raises
\* InvalidTransition for every target.
C4_TerminalStep ==
    \A r \in ExistingIds :
        records[r].status \in Terminal => records'[r].status = records[r].status

C4_TerminalRefused ==
    \A r \in ExistingIds, s \in Statuses, a \in BOOLEAN :
        records[r].status \in Terminal =>
            change_record_status(CurrentStatusStore, r, s, NULL, a)
               = {StatusResult("InvalidTransition", CurrentStatusStore, <<>>)}

\* C4 (theorem): in every step the status of a rejected or deprecated record is
\* kept, and in every state a direct request on such a record is refused.
C4_TerminalIsFinal == [][C4_TerminalStep]_vars /\ []C4_TerminalRefused

\* C4 witness: a sibling of a rejected or deprecated record was accepted or
\* implemented (the calls that cascade) while that record was already terminal.
C4_Witness ==
    /\ StatusChanged
    /\ last.status \in {"accepted", "implemented"}
    /\ \E r \in SiblingsOf(last.before.records, last.record_id) :
          last.before.records[r].status \in Terminal

\* C5: no status change, direct or cascaded, sets implemented_inferred; a request
\* for it raises InvalidTransition from every status, so only a record created
\* with it has it; from implemented_inferred only deprecated succeeds.
C5_InferredStep ==
    \A r \in 1..Len(records') :
        records'[r].status = "implemented_inferred" =>
            \/ r > Len(records)
            \/ records[r].status = "implemented_inferred"

C5_InferredState ==
    /\ \A r \in ExistingIds, a \in BOOLEAN :
          change_record_status(CurrentStatusStore, r, "implemented_inferred", NULL, a)
             = {StatusResult("InvalidTransition", CurrentStatusStore, <<>>)}
    /\ \A r \in ExistingIds :
          records[r].status = "implemented_inferred" =>
             /\ Len(status_history[r]) = 1
             /\ status_history[r][1].from_status = NULL
             /\ status_history[r][1].to_status = "implemented_inferred"
             /\ \A s \in Statuses, a \in BOOLEAN :
                   (\E res \in change_record_status(CurrentStatusStore, r, s, NULL, a) :
                       res.outcome = "ok") <=> s = "deprecated"

\* C5 (theorem): no step gives an existing record the status implemented_inferred,
\* and in every state a request for it is refused, a record that has it was
\* created with it, and from it only deprecated succeeds.
C5_NeverToInferred == [][C5_InferredStep]_vars /\ []C5_InferredState

\* C5 witness: a record created implemented_inferred was deprecated by a call.
C5_Witness ==
    /\ StatusChanged
    /\ last.before.records[last.record_id].status = "implemented_inferred"
    /\ records[last.record_id].status = "deprecated"

\* ---- what a returned change_record_status did to a sibling
\* The siblings of the last call's record that had one of `statuses` when it began.
SiblingsThatWere(statuses) ==
    {r \in SiblingsOf(last.before.records, last.record_id) :
        last.before.records[r].status \in statuses}

EdgeCount(rels, source, target, type) ==
    Cardinality({i \in 1..Len(rels) : rels[i] = RelationshipRow(source, target, type)})

\* The last call added exactly one StatusHistory row for sibling: from_status ->
\* to_status, flagged automatic and naming the call's record as the trigger.
AutomaticEntryAdded(sibling, from_status, to_status) ==
    LET h == status_history[sibling]
    IN  /\ Len(h) = Len(last.before.status_history[sibling]) + 1
        /\ SubSeq(h, 1, Len(h) - 1) = last.before.status_history[sibling]
        /\ h[Len(h)].from_status = from_status
        /\ h[Len(h)].to_status = to_status
        /\ h[Len(h)].metadata = AutomaticMetadata(last.record_id)

\* The last call added one superseded_by edge sibling -> the call's record.
SupersededEdgeAdded(sibling) ==
    EdgeCount(relationships, sibling, last.record_id, "superseded_by")
       = EdgeCount(last.before.relationships, sibling, last.record_id, "superseded_by") + 1

\* The last call left the sibling's status and StatusHistory alone.
SiblingUntouched(sibling) ==
    /\ records[sibling].status = last.before.records[sibling].status
    /\ status_history[sibling] = last.before.status_history[sibling]

InAffected(r) == \E i \in 1..Len(last.affected_records) : last.affected_records[i] = r

\* C6: when change_record_status(T, accepted, auto_handle_conflicts=true) returns
\* while a different record S of the Decision is accepted, then S is rejected, T
\* is the only accepted record of the Decision, S has a new automatic StatusHistory
\* row accepted -> rejected naming T, a superseded_by edge S -> T exists, and
\* affected_records is exactly [S].
C6_AcceptRejectsAcceptedSibling ==
    (StatusChanged /\ last.status = "accepted" /\ last.auto_handle_conflicts) =>
        \A S \in SiblingsThatWere({"accepted"}) :
            /\ records[S].status = "rejected"
            /\ AcceptedIn(records, records[last.record_id].decision_id) = {last.record_id}
            /\ AutomaticEntryAdded(S, "accepted", "rejected")
            /\ SupersededEdgeAdded(S)
            /\ last.affected_records = <<S>>

\* C7: when change_record_status(T, implemented, auto_handle_conflicts=true)
\* returns, every sibling that was implemented or implemented_inferred is
\* deprecated, with its own automatic StatusHistory row and superseded_by edge
\* to T, and is listed in affected_records; T is the only record of the Decision
\* that is implemented or implemented_inferred.
C7_ImplementDeprecatesImplementedSiblings ==
    (StatusChanged /\ last.status = "implemented" /\ last.auto_handle_conflicts) =>
        /\ \A S \in SiblingsThatWere({"implemented", "implemented_inferred"}) :
              /\ records[S].status = "deprecated"
              /\ AutomaticEntryAdded(S, last.before.records[S].status, "deprecated")
              /\ SupersededEdgeAdded(S)
              /\ InAffected(S)
        /\ ImplementedIn(records, records[last.record_id].decision_id) = {last.record_id}

ConflictingSiblings(record_id, new_status) ==
    {S \in SiblingsOf(records, record_id) :
        \/ new_status = "accepted" /\ records[S].status = "accepted"
        \/ new_status = "implemented"
              /\ records[S].status \in {"implemented", "implemented_inferred"}}

C9_ConflictChangesNothing ==
    \A T \in ExistingIds, s \in {"accepted", "implemented"} :
        (ConflictingSiblings(T, s) # {} /\ <<records[T].status, s>> \in TableEdges) =>
            change_record_status(CurrentStatusStore, T, s, NULL, FALSE)
               = {StatusResult("Conflict", CurrentStatusStore, <<>>)}

\* C9 witness: both kinds of conflicting request exist in a state that calls
\* have produced.
C9_Witness ==
    /\ StatusChanged
    /\ \E T \in ExistingIds :
          /\ ConflictingSiblings(T, "implemented") # {}
          /\ change_record_status(CurrentStatusStore, T, "implemented", NULL, FALSE)
                = {StatusResult("Conflict", CurrentStatusStore, <<>>)}

\* C11: change_record_status raises NotFound when the record does not exist,
\* InvalidStatus when (the record existing) new_status is none of the six
\* statuses, and InvalidTransition when (both being valid) the pair is no edge of
\* the table; the three carry different messages, and in each case the records,
\* the StatusHistory and the relationships stay as they were.
C11_TypedFailuresChangeNothing ==
    /\ \A r \in RecordIds \cup {0}, s \in RequestStatuses, a \in BOOLEAN :
          LET out == change_record_status(CurrentStatusStore, r, s, NULL, a)
              Fails(kind) == out = {StatusResult(kind, CurrentStatusStore, <<>>)}
          IN  /\ r \notin ExistingIds => Fails("NotFound")
              /\ (r \in ExistingIds /\ s \notin Statuses) => Fails("InvalidStatus")
              /\ (r \in ExistingIds /\ s \in Statuses
                  /\ <<records[r].status, s>> \notin TableEdges) => Fails("InvalidTransition")
    /\ \A e1, e2 \in {"NotFound", "InvalidStatus", "InvalidTransition"} :
          e1 # e2 => ValueErrorMessage(e1) # ValueErrorMessage(e2)

\* C11 witness: after a status change, one state in which the three requests
\* fail in the three ways: an id with no record, an unknown status on an
\* existing record, and a pair that is no edge.
C11_Witness ==
    /\ StatusChanged
    /\ Len(records) < MaxRecords
    /\ \E r \in ExistingIds :
          /\ change_record_status(CurrentStatusStore, Len(records) + 1, BogusStatus, NULL, TRUE)
                = {StatusResult("NotFound", CurrentStatusStore, <<>>)}
          /\ change_record_status(CurrentStatusStore, r, BogusStatus, NULL, TRUE)
                = {StatusResult("InvalidStatus", CurrentStatusStore, <<>>)}
          /\ change_record_status(CurrentStatusStore, r, "proposed", NULL, TRUE)
                = {StatusResult("InvalidTransition", CurrentStatusStore, <<>>)}

\* The records whose status the last call changed, its own record left out.
ChangedSiblings ==
    {r \in 1..Len(last.before.records) \ {last.record_id} :
        records[r].status # last.before.records[r].status}

AffectedSet == {last.affected_records[i] : i \in 1..Len(last.affected_records)}

C13_RejectDeprecateTouchTargetOnly ==
    (StatusChanged /\ last.status \in Terminal) =>
        LET T == last.record_id
            old == last.before
        IN  /\ Len(records) = Len(old.records)
            /\ records = [old.records EXCEPT ![T].status = last.status]
            /\ status_history =
                  [old.status_history EXCEPT
                      ![T] = Append(@, StatusHistoryRow(old.records[T].status, last.status,
                                                        NULL, NoMetadata))]
            /\ relationships = old.relationships
            /\ last.affected_records = <<>>

\* C13 witness: an accepted record was rejected or deprecated while a sibling
\* was accepted or implemented, the siblings conflict resolution acts on.
C13_Witness ==
    /\ StatusChanged /\ last.status \in Terminal
    /\ last.before.records[last.record_id].status = "accepted"
    /\ SiblingsThatWere({"accepted", "implemented", "implemented_inferred"}) # {}

\* ---- versioning (SpecContent)
CurrentContentStore == ContentStore(records, record_versions, changelog)

ContentUpdated == last.op = "updateContent"

Reverted == last.op = "revertToVersion"

\* The snapshot rows of one record.
VersionsOf(versions, record_id) == {v \in versions : v.decision_record_id = record_id}

\* Arguments for update_decision_record that supply, for record r, only values
\* the record already has: nothing, its rationale alone, every non-null field,
\* or one of the explored inputs that happens to repeat the current values.
NoOpInputs(r) ==
    {i \in UpdateInputs \cup {records[r].content, InputOf("rationale", records[r].content.rationale)} :
        \A f \in Fields : i[f] # NULL => i[f] = records[r].content[f]}

\* C14: update_decision_record whose every supplied field equals the current
\* value (or that supplies nothing) returns the record as it is: the records,
\* the snapshots and the changelog are unchanged, and so they are when the call
\* is made again.
C14_NoOpUpdateChangesNothing ==
    \A r \in ExistingIds : \A i \in NoOpInputs(r) :
        LET once == update_content(CurrentContentStore, r, i)
        IN  /\ once = ContentResult("unchanged", CurrentContentStore)
            /\ update_content(once.st, r, i) = once

\* C14 witness: an update has changed a record, and the same update made again
\* supplies a field and is a no-op.
C14_Witness ==
    /\ ContentUpdated
    /\ records[last.record_id].version >= 2
    /\ last.input \in NoOpInputs(last.record_id)
    /\ last.input # NoFields
    /\ update_content(CurrentContentStore, last.record_id, last.input).outcome = "unchanged"

\* C15: an update_decision_record that changed a field of record r at version v
\* left a snapshot of v holding the content r had before (adding that row only
\* if v had none, and no other row), set the live version to v+1 with the
\* supplied fields applied and everything else of every record as it was, and
\* appended one changelog entry v -> v+1 whose changes are exactly the fields
\* whose value differed, each with its old and its new value.
C15_UpdateSnapshotsBumpsAndLogs ==
    ContentUpdated =>
        LET r == last.record_id
            old == last.before
            v == old.records[r].version
            was == old.records[r].content
            now == [f \in Fields |-> IF last.input[f] # NULL THEN last.input[f] ELSE was[f]]
            differing == {f \in Fields : was[f] # now[f]}
            entry == changelog[r][Len(changelog[r])]
        IN  /\ differing # {}
            /\ HasVersion(record_versions, r, v)
            /\ get_record_version_by_number(record_versions, r, v).snapshot.content = was
            /\ IF HasVersion(old.record_versions, r, v)
                 THEN record_versions = old.record_versions
                 ELSE /\ old.record_versions \subseteq record_versions
                      /\ Cardinality(record_versions \ old.record_versions) = 1
            /\ records = [old.records EXCEPT ![r].version = v + 1, ![r].content = now]
            /\ Len(changelog[r]) = Len(old.changelog[r]) + 1
            /\ changelog = [old.changelog EXCEPT ![r] = Append(@, entry)]
            /\ entry.from_version = v /\ entry.to_version = v + 1
            /\ DOMAIN entry.changes = differing
            /\ \A f \in differing : entry.changes[f] = [old |-> was[f], new |-> now[f]]

\* C15 witness: an update at a version that had no snapshot yet (v >= 2), with
\* two fields supplied of which one differed.
C15_Witness ==
    /\ ContentUpdated
    /\ last.before.records[last.record_id].version >= 2
    /\ ~HasVersion(last.before.record_versions, last.record_id,
                   last.before.records[last.record_id].version)
    /\ Cardinality({f \in Fields : last.input[f] # NULL}) = 2
    /\ Cardinality(DOMAIN changelog[last.record_id][Len(changelog[last.record_id])].changes) = 1

\* C16: the live version of a record starts at 1; a step raises it by exactly 1
\* when the step is an update_decision_record that changed it or a
\* revert_to_version of it, and leaves it alone otherwise; in every state the
\* changelog of a record at version v has v-1 entries, the i-th being i -> i+1.
C16_VersionStep ==
    /\ \A r \in ExistingIds :
          records'[r].version =
              IF last'.op \in {"updateContent", "revertToVersion"} /\ last'.record_id = r
                THEN records[r].version + 1
                ELSE records[r].version
    /\ \A r \in 1..Len(records') : r > Len(records) => records'[r].version = 1

C16_ChangelogCountsVersions ==
    \A r \in ExistingIds :
        /\ records[r].version >= 1
        /\ Len(changelog[r]) = records[r].version - 1
        /\ \A i \in 1..Len(changelog[r]) :
              changelog[r][i].from_version = i /\ changelog[r][i].to_version = i + 1

\* C16 (theorem): every step moves the versions as stated and every state has
\* the changelog that goes with them.
C16_VersionGrowsByOne == [][C16_VersionStep]_vars /\ []C16_ChangelogCountsVersions

\* C16 witness: a record has reached version 3 through one update and one
\* revert, having had its status changed in between or before.
C16_Witness ==
    /\ Reverted
    /\ records[last.record_id].version = 3
    /\ changelog[last.record_id][1].summary.kind = "Updated"
    /\ Len(status_history[last.record_id]) >= 2

\* C17: a revert_to_version(r, N) that returns raised the live version of r by
\* exactly 1 and appended exactly one changelog entry, old version -> new
\* version: in every state and for every N that has a snapshot, also when the
\* snapshot equals the live content and when N is the live version; the new
\* version is neither N nor the version of any snapshot or changelog entry.
C17_RevertAlwaysNewVersion ==
    \A r \in ExistingIds, N \in 1..(MaxVersion + 1) :
        HasVersion(record_versions, r, N) =>
            LET res == revert_to_version(CurrentContentStore, r, N, NULL)
                v == records[r].version
                new == res.st.records[r].version
            IN  /\ res.outcome = "ok"
                /\ new = v + 1
                /\ new # N
                /\ \A s \in VersionsOf(res.st.record_versions, r) : s.version < new
                /\ \A i \in 1..Len(changelog[r]) :
                      changelog[r][i].from_version < new /\ changelog[r][i].to_version < new
                /\ Len(res.st.changelog[r]) = Len(changelog[r]) + 1
                /\ SubSeq(res.st.changelog[r], 1, Len(changelog[r])) = changelog[r]
                /\ res.st.changelog[r][Len(changelog[r]) + 1].from_version = v
                /\ res.st.changelog[r][Len(changelog[r]) + 1].to_version = new

\* C17 witness: a revert to the live version itself (same content, empty
\* changes) has returned and the version went up.
C17_Witness ==
    /\ Reverted
    /\ last.version = last.before.records[last.record_id].version
    /\ records[last.record_id].version = last.version + 1
    /\ DOMAIN changelog[last.record_id][Len(changelog[last.record_id])].changes = {}

\* The from_version / to_version arguments that name something record r has:
\* "current", or the number of one of its snapshots.
ValidVersionArgs(r) ==
    {Current} \cup
    {Numbered(n) : n \in {m \in 1..(MaxVersion + 1) : HasVersion(record_versions, r, m)}}

\* The content an argument names, read from the tables directly.
SideContent(r, v) ==
    IF v.current
      THEN records[r].content
      ELSE (CHOOSE row \in record_versions :
                row.decision_record_id = r /\ row.version = v.number).snapshot.content

\* C18: in the state a revert_to_version(r, N) has left, get_version_diff(r,
\* "current", N) gives no changes, every one of the nine fields of the live
\* record being that of snapshot N.
C18_RevertThenDiffIsEmpty ==
    Reverted =>
        LET d == get_version_diff(CurrentContentStore, last.record_id, Current,
                                  Numbered(last.version))
        IN  /\ d.outcome = "ok"
            /\ DOMAIN d.changes = {}
            /\ \A f \in Fields :
                  records[last.record_id].content[f]
                     = SideContent(last.record_id, Numbered(last.version))[f]

\* C18 witness: a revert has returned that changed the live content, one field
\* going back to no value.
C18_Witness ==
    /\ Reverted
    /\ \E f \in Fields :
          /\ last.before.records[last.record_id].content[f] # NULL
          /\ records[last.record_id].content[f] = NULL

\* C19: get_version_diff(r, v, v) has no changes, for every record and every v
\* that is "current" or the number of a snapshot of the record.
C19_DiffWithItselfIsEmpty ==
    \A r \in ExistingIds : \A v \in ValidVersionArgs(r) :
        LET d == get_version_diff(CurrentContentStore, r, v, v)
        IN  d.outcome = "ok" /\ DOMAIN d.changes = {}

\* C19 witness: a record has two snapshots that differ from each other, the
\* second differing from the live content.
C19_Witness ==
    \E r \in ExistingIds :
        /\ HasVersion(record_versions, r, 1) /\ HasVersion(record_versions, r, 2)
        /\ SideContent(r, Numbered(1)) # SideContent(r, Numbered(2))
        /\ SideContent(r, Numbered(2)) # records[r].content

\* C20: get_version_diff(r, from, to) reports exactly the fields, of the nine,
\* whose value on the from side differs from the to side, old being the from
\* side's value and new the to side's; get_version_diff(r, to, from) reports the
\* same fields with old and new exchanged; "current" reads the live record and
\* is reported with the live version number, a number with itself.
C20_DiffReportsDifferingFields ==
    \A r \in ExistingIds : \A from \in ValidVersionArgs(r), to \in ValidVersionArgs(r) :
        LET d == get_version_diff(CurrentContentStore, r, from, to)
            back == get_version_diff(CurrentContentStore, r, to, from)
            F == SideContent(r, from)
            T == SideContent(r, to)
            NumberOf(v) == IF v.current THEN records[r].version ELSE v.number
        IN  /\ d.outcome = "ok"
            /\ DOMAIN d.changes = {f \in Fields : F[f] # T[f]}
            /\ \A f \in DOMAIN d.changes : d.changes[f] = [old |-> F[f], new |-> T[f]]
            /\ DOMAIN d.changes # {} =>
                  /\ DOMAIN back.changes = DOMAIN d.changes
                  /\ \A f \in DOMAIN d.changes :
                        back.changes[f] = [old |-> d.changes[f].new, new |-> d.changes[f].old]
            /\ d.from_version = from /\ d.to_version = to
            /\ d.from_version_number = NumberOf(from)
            /\ d.to_version_number = NumberOf(to)

\* C20 witness: the diff from "current" to the first snapshot of a record at
\* version 2 or more reports a field, with the live value as old.
C20_Witness ==
    \E r \in ExistingIds :
        /\ records[r].version >= 2
        /\ HasVersion(record_versions, r, 1)
        /\ LET d == get_version_diff(CurrentContentStore, r, Current, Numbered(1))
           IN  /\ d.from_version_number = records[r].version
               /\ \E f \in DOMAIN d.changes : d.changes[f].old = records[r].content[f]

\* A record id that names no row, next to the ids that do.
MissingId == Len(records) + 1

\* C21: updateContent on a record that does not exist, revertToVersion and
\* getAtVersion on a version with no snapshot, and a diff with a side that has
\* no snapshot each end in NotFound, and the calls that could write return the
\* store they were given: no snapshot, no changelog entry, no version bump.
C21_NotFoundChangesNothing ==
    /\ \A i \in UpdateInputs :
          update_content(CurrentContentStore, MissingId, i)
              = ContentResult("NotFound", CurrentContentStore)
    /\ \A r \in ExistingIds \cup {MissingId} :
          \A v \in 1..(MaxVersion + 1) :
             ~HasVersion(record_versions, r, v) =>
                /\ revert_to_version(CurrentContentStore, r, v, NULL)
                       = ContentResult("NotFound", CurrentContentStore)
                /\ get_record_at_version(record_versions, r, v) = NULL
                /\ get_record_at_version_route(record_versions, r, v).outcome = "NotFound"
                /\ get_version_diff(CurrentContentStore, r, Numbered(v), Current).outcome
                       = "NotFound"
                /\ get_version_diff(CurrentContentStore, r, Current, Numbered(v)).outcome
                       = "NotFound"
                /\ get_version_diff(CurrentContentStore, r, Numbered(1), Numbered(v)).outcome
                       = "NotFound"

\* C21 witness: a record whose content was changed lives at a version that has
\* no snapshot, and reverting to that version is refused.
C21_Witness ==
    /\ ContentUpdated \/ Reverted
    /\ \E r \in ExistingIds :
          /\ records[r].version >= 2
          /\ ~HasVersion(record_versions, r, records[r].version)
          /\ revert_to_version(CurrentContentStore, r, records[r].version, NULL).outcome
                = "NotFound"

\* The version numbers getRecordVersions lists for a record.
ListedVersions(r) ==
    LET listed == get_all_record_versions(record_versions, r)
    IN  {listed[i].version : i \in DOMAIN listed}

\* C23: with calls run one at a time, a record at live version n has snapshots
\* for exactly the versions 1..n-1 (for version 1 when n = 1): once n > 1 the
\* version list does not contain n and getAtVersion(r, n) is NotFound.
C23_SnapshotsAreTheEarlierVersions ==
    \A r \in ExistingIds :
        LET n == records[r].version
        IN  /\ ListedVersions(r) = (IF n = 1 THEN {1} ELSE 1..(n - 1))
            /\ Len(get_all_record_versions(record_versions, r))
                  = Cardinality(ListedVersions(r))
            /\ \A v \in 1..(MaxVersion + 1) :
                  (get_record_at_version_route(record_versions, r, v).outcome = "ok")
                      <=> v \in ListedVersions(r)
            /\ n > 1 =>
                  /\ n \notin ListedVersions(r)
                  /\ get_record_at_version_route(record_versions, r, n).outcome
                        = "NotFound"

\* C23 witness: after two content changes a record at version 3 lists the
\* versions 2 and 1, in that order, and has no snapshot of version 3.
C23_Witness ==
    /\ ContentUpdated \/ Reverted
    /\ \E r \in ExistingIds :
          /\ records[r].version = 3
          /\ LET listed == get_all_record_versions(record_versions, r)
             IN  /\ Len(listed) = 2
                 /\ listed[1].version = 2
                 /\ listed[2].version = 1
          /\ get_record_at_version_route(record_versions, r, 3).outcome = "NotFound"

\* Every row of the per-record table `old` is in `new`, at its place and with
\* its contents.
Extends(new, old) ==
    /\ Len(new) >= Len(old)
    /\ \A r \in 1..Len(old) :
          /\ Len(new[r]) >= Len(old[r])
          /\ \A k \in 1..Len(old[r]) : new[r][k] = old[r][k]

C28_AppendStep ==
    /\ Extends(status_history', status_history)
    /\ Extends(changelog', changelog)
    /\ record_versions \subseteq record_versions'

\* C28: StatusHistory, ChangelogEntry and RecordVersion are append-only under
\* createRecord, updateContent, changeStatus and revertToVersion: an entry that
\* exists in a state exists with the same contents in every later state.
C28_AppendOnly == [][C28_AppendStep]_vars

\* C28 witness: a record that has been through a status transition and two
\* content changes still has its creation-time history entry, its first
\* changelog row and its version-1 snapshot.
C28_Witness ==
    \E r \in ExistingIds :
        /\ Len(status_history[r]) >= 2
        /\ Len(changelog[r]) >= 2
        /\ status_history[r][1].from_status = NULL
        /\ changelog[r][1].from_version = 1
        /\ HasVersion(record_versions, r, 1)
        /\ HasVersion(record_versions, r, 2)

\* ---- create_decision_record (Spec)
CurrentFullStore == FullStore(records, status_history, record_versions, changelog)

\* What a successful create_decision_record(decision_id, status) leaves in
\* store `after`, given store `before`: one more record, at version 1 and in
\* the requested status, with its creation-time history entry and its version-1
\* snapshot, and nothing else touched.
CreatedIn(before, after, id, decision_id, status) ==
    /\ id = Len(before.records) + 1
    /\ Len(after.records) = id
    /\ \A r \in 1..Len(before.records) :
          /\ after.records[r] = before.records[r]
          /\ after.status_history[r] = before.status_history[r]
          /\ after.changelog[r] = before.changelog[r]
    /\ after.records[id].decision_id = decision_id
    /\ after.records[id].version = 1
    /\ after.records[id].status = (IF status \in Falsy THEN "proposed" ELSE status)
    /\ after.records[id].content = BaseContent
    /\ Len(after.status_history[id]) = 1
    /\ after.status_history[id][1].from_status = NULL
    /\ after.status_history[id][1].to_status = after.records[id].status
    /\ after.changelog[id] = <<>>
    /\ after.record_versions \ before.record_versions
          = {RecordVersionRow(id, 1, SnapshotOf(after.records[id]))}
    /\ before.record_versions \subseteq after.record_versions
    /\ get_record_at_version(after.record_versions, id, 1).content
          = after.records[id].content

\* C24: a successful createRecord yields a record at version 1 in the requested
\* status (proposed when none is given), one StatusHistory entry for it with
\* from_status null and to_status that status, and a version-1 snapshot equal
\* to the record's content; with an unrecognised status or a Decision that does
\* not exist it fails and creates no record, no history entry, no snapshot.
C24_CreateRecord ==
    /\ last.op = "createRecord" =>
          CreatedIn([k \in DOMAIN CurrentFullStore |-> last.before[k]], CurrentFullStore,
                    last.record_id, records[last.record_id].decision_id, last.status)
    /\ \A d \in Decisions \cup {NoSuchDecision}, s \in RequestStatuses \cup Falsy :
          LET res == create_decision_record(CurrentFullStore, d, s, BaseContent)
          IN  IF d \notin Decisions \/ (s \notin Falsy /\ s \notin Statuses)
                THEN /\ res.outcome \in {"NotFound", "InvalidStatus"}
                     /\ res.st = CurrentFullStore
                ELSE /\ res.outcome = "ok"
                     /\ CreatedIn(CurrentFullStore, res.st, res.id, d, s)

\* C24 witness: a second record has just been created as accepted, and another
\* creation with no status would give a proposed record.
C24_Witness ==
    /\ last.op = "createRecord"
    /\ last.status = "accepted"
    /\ last.record_id = 2
    /\ records[2].status = "accepted"
    /\ records[2].version = 1
    /\ HasVersion(record_versions, 2, 1)
    /\ status_history[2] = <<StatusHistoryRow(NULL, "accepted", "Initial creation", NoMetadata)>>

\* A content call's result leaves every record's status and Decision as they
\* are.  (StatusHistory and relationships are no part of what the content
\* calls read or write.)
KeepsStatuses(res) ==
    /\ Len(res.st.records) = Len(records)
    /\ \A q \in ExistingIds :
          /\ res.st.records[q].status = records[q].status
          /\ res.st.records[q].decision_id = records[q].decision_id

\* C25: a status transition, primary or cascaded, leaves every record's
\* version and content, the snapshots and the changelog unchanged; updateContent
\* and revertToVersion leave every record's status unchanged, so a revert to a
\* snapshot taken under another status does not restore that status.
C25_StatusAndContentAreSeparate ==
    /\ StatusChanged =>
          /\ \A r \in ExistingIds :
                /\ records[r].version = last.before.records[r].version
                /\ records[r].content = last.before.records[r].content
                /\ records[r].decision_id = last.before.records[r].decision_id
          /\ record_versions = last.before.record_versions
          /\ changelog = last.before.changelog
    /\ \A r \in ExistingIds :
          /\ \A i \in UpdateInputs :
                LET res == update_content(CurrentContentStore, r, i)
                IN  /\ KeepsStatuses(res)
                    /\ i = InputOf("rationale", "a") => res.outcome = "ok"
          /\ LET res == revert_to_version(CurrentContentStore, r, 1, NULL)
             IN  /\ res.outcome = "ok"
                 /\ KeepsStatuses(res)
                 /\ res.st.records[r].version = records[r].version + 1

\* C25 witness: a transition that cascaded to a sibling has just returned, and
\* a record whose version-1 snapshot holds another status than the live one
\* can be reverted to version 1 with its live status kept.
C25_Witness ==
    /\ StatusChanged
    /\ last.affected_records # <<>>
    /\ \E r \in ExistingIds :
          /\ r = last.affected_records[1]
          /\ records[r].status # last.before.records[r].status
          /\ get_record_at_version(record_versions, r, 1).status # records[r].status
          /\ LET res == revert_to_version(CurrentContentStore, r, 1, NULL)
             IN  /\ res.outcome = "ok"
                 /\ res.st.records[r].status = records[r].status

\* ---- timeline (SpecTimeline)
TimestampsMatchTables ==
    /\ Len(timestamps.records) = Len(records)
    /\ Len(timestamps.status_history) = Len(records)
    /\ Len(timestamps.changelog) = Len(records)
    /\ \A r \in ExistingIds :
          /\ Len(timestamps.status_history[r]) = Len(status_history[r])
          /\ Len(timestamps.changelog[r]) = Len(changelog[r])

RecordsOf(d) == {r \in ExistingIds : records[r].decision_id = d}

\* The places in `events` of the events of one type for one record.
EventsAt(events, event_type, r) ==
    {i \in DOMAIN events : events[i].event_type = event_type /\ events[i].record_id = r}

TransitionEntries(r) ==
    {k \in DOMAIN status_history[r] : status_history[r][k].from_status # NULL}

\* What the timeline of Decision d has to hold, whatever order the store
\* returns equal rows in.
TimelineIsComplete(d, timeline) ==
    LET events == timeline.events
    IN  /\ timeline.outcome = "ok"
        /\ \A r \in ExistingIds \ RecordsOf(d) :
              \A i \in DOMAIN events : events[i].record_id # r
        /\ \A r \in RecordsOf(d) :
              /\ Cardinality(EventsAt(events, "record_created", r)) = 1
              /\ \A i \in EventsAt(events, "record_created", r) :
                    events[i].timestamp = timestamps.records[r]
              /\ Cardinality(EventsAt(events, "status_change", r))
                    = Cardinality(TransitionEntries(r))
              /\ \A k \in TransitionEntries(r) :
                    Cardinality({i \in EventsAt(events, "status_change", r) :
                                   /\ events[i].details.from_status
                                         = status_history[r][k].from_status
                                   /\ events[i].details.to_status
                                         = status_history[r][k].to_status
                                   /\ events[i].timestamp
                                         = timestamps.status_history[r][k]}) = 1
              /\ Cardinality(EventsAt(events, "content_change", r)) = Len(changelog[r])
              /\ \A k \in DOMAIN changelog[r] :
                    Cardinality({i \in EventsAt(events, "content_change", r) :
                                   /\ events[i].details.to_version
                                         = changelog[r][k].to_version
                                   /\ events[i].details.changes = changelog[r][k].changes
                                   /\ events[i].timestamp = timestamps.changelog[r][k]}) = 1
        /\ \A i \in DOMAIN events :
              events[i].event_type \in {"record_created", "status_change", "content_change"}
        /\ timeline.total_events = Len(events)
        /\ \A i, j \in DOMAIN events :
              i < j => events[i].timestamp >= events[j].timestamp

\* C29: the timeline of a Decision holds one record_created event per record
\* of the Decision, one status_change event per StatusHistory entry with a
\* from_status (the creation-time entry is left out) and one content_change
\* event per ChangelogEntry; total_events is their number, and the events come
\* newest first.
C29_TimelineIsComplete ==
    /\ TimestampsMatchTables
    /\ \A d \in Decisions, row_order \in RowOrders :
          TimelineIsComplete(d, get_decision_timeline(CurrentFullStore, timestamps, d, row_order))
    /\ get_decision_timeline(CurrentFullStore, timestamps, NoSuchDecision, "forward").outcome
          = "NotFound"

\* C29 witness: a Decision with a record that was accepted and edited, next to
\* a record of another Decision: its timeline has three events of three types,
\* not all of one timestamp.
C29_Witness ==
    \E d \in Decisions :
        LET timeline == get_decision_timeline(CurrentFullStore, timestamps, d, "forward")
        IN  /\ Cardinality(RecordsOf(d)) = 1
            /\ ExistingIds \ RecordsOf(d) # {}
            /\ timeline.total_events = 3
            /\ {timeline.events[i].event_type : i \in 1..3}
                  = {"record_created", "status_change", "content_change"}
            /\ timeline.events[1].timestamp > timeline.events[3].timestamp

\* C30: the record_created event of a record reports the status the record was
\* created with, also after later status transitions.
C30_CreatedEventReportsInitialStatus ==
    \A d \in Decisions, row_order \in RowOrders :
        LET events == get_decision_timeline(CurrentFullStore, timestamps, d, row_order).events
        IN  \A i \in DOMAIN events :
               events[i].event_type = "record_created" =>
                  events[i].details.initial_status
                     = status_history[events[i].record_id][1].to_status

\* The number of events of a timeline that carry the timestamp of event i.
SharingTimestamp(events, i) ==
    Cardinality({j \in DOMAIN events : events[j].timestamp = events[i].timestamp})

Annotated(event) == "has_concurrent_events" \in DOMAIN event

\* C31: in the timeline of a Decision an event carries has_concurrent_events =
\* true with concurrent_count = n exactly when n >= 2 events of the Decision
\* have its timestamp; an event with a timestamp of its own carries neither
\* field.
C31_ConcurrentEventsAreMarked ==
    \A d \in Decisions, row_order \in RowOrders :
        LET events == get_decision_timeline(CurrentFullStore, timestamps, d, row_order).events
        IN  \A i \in DOMAIN events :
               LET n == SharingTimestamp(events, i)
               IN  IF n >= 2
                     THEN /\ Annotated(events[i])
                          /\ events[i].has_concurrent_events = TRUE
                          /\ events[i].concurrent_count = n
                     ELSE /\ ~Annotated(events[i])
                          /\ "concurrent_count" \notin DOMAIN events[i]

\* C31 witness: a timeline in which three events share one timestamp and are
\* marked with count 3, next to an event of the same day that has a timestamp
\* of its own and is not marked.
C31_Witness ==
    \E d \in Decisions :
        LET events == get_decision_timeline(CurrentFullStore, timestamps, d, "forward").events
        IN  \E i, j \in DOMAIN events :
               /\ Annotated(events[i])
               /\ events[i].concurrent_count = 3
               /\ ~Annotated(events[j])
               /\ DateOf(events[j].timestamp) = DateOf(events[i].timestamp)

\* ---- SpecContentSteps
SnapshotKeyUnique ==
    \A v, w \in record_versions :
        (v.decision_record_id = w.decision_record_id /\ v.version = w.version) => v = w

\* The row a caller at create_snapshot is about to insert.
SnapshotRowOf(frame) ==
    RecordVersionRow(frame.record_id, frame.current_record.version,
                     SnapshotOf(frame.current_record))

\* A create_record_version call: no row is removed or replaced, the caller goes
\* on to its UPDATE, and when the pair already has a row the table is left as
\* it was and that row is what the call returns.
C22_CreateStep ==
    /\ \A v \in record_versions : v \in record_versions'
    /\ \A c \in Callers :
          (calls[c].pc = "create_snapshot" /\ calls'[c] # calls[c]) =>
             LET row == SnapshotRowOf(calls[c])
             IN  /\ calls'[c].pc = "write_record"
                 /\ HasVersion(record_versions', row.decision_record_id, row.version)
                 /\ HasVersion(record_versions, row.decision_record_id, row.version) =>
                       /\ record_versions' = record_versions
                       /\ calls'[c].version_returned =
                             <<[rowcount |-> 0,
                                row |-> get_record_version_by_number(
                                            record_versions, row.decision_record_id,
                                            row.version)]>>

\* An attempt to store different content under a pair that has a row changes
\* nothing and returns the stored row.
C22_StoredRowWins ==
    /\ SnapshotKeyUnique
    /\ \A v \in record_versions :
          LET other == RecordVersionRow(v.decision_record_id, v.version,
                                        [v.snapshot EXCEPT !.content = NoFields])
          IN  /\ other # v
              /\ create_record_version(record_versions, other) = record_versions
              /\ create_record_version_returns(record_versions, other) = v

\* C22: a RecordVersion for a pair (record, version) is created at most once
\* and never overwritten: a later or concurrent attempt to create a snapshot
\* for the same pair raises nothing, leaves the stored snapshot unchanged and
\* returns the row already stored.
C22_SnapshotCreatedOnce == [][C22_CreateStep]_vars /\ []C22_StoredRowWins

\* C22 witness: two callers loaded the record at a version that had no snapshot;
\* one has inserted it and the other's insert was skipped (rowcount 0) and
\* returned the stored row.
C22_Witness ==
    \E c \in Callers :
        /\ calls[c].pc = "write_record"
        /\ calls[c].version_returned # <<>>
        /\ calls[c].version_returned[1].rowcount = 0
        /\ calls[c].version_returned[1].row \in record_versions
        /\ calls[c].current_record.version >= 2

\* Caller `second` is about to run the UPDATE of an update_decision_record
\* while caller `first`, in an update_decision_record on the same record that
\* loaded the same version and changes other fields, has run its UPDATE and has
\* not yet returned.
SecondWriterAfterFirst(first, second) ==
    /\ first # second
    /\ calls[second].pc = "write_record"
    /\ calls[first].pc = "write_changelog"
    /\ calls[second].op = "updateContent"
    /\ calls[first].op = "updateContent"
    /\ calls[second].record_id = calls[first].record_id
    /\ calls[second].current_record.version = calls[first].current_record.version
    /\ DOMAIN calls[second].changes \cap DOMAIN calls[first].changes = {}

SecondWrites(second) == calls'[second].pc = "write_changelog"

UpdateWritesSuppliedFieldsOnly ==
    \A c \in Callers :
        (calls[c].pc = "write_record" /\ calls'[c].pc = "write_changelog") =>
           LET r == calls[c].record_id
           IN  /\ records'[r].version = calls[c].current_record.version + 1
               /\ \A f \in Fields :
                     records'[r].content[f] =
                        IF f \in DOMAIN calls[c].record_data
                          THEN calls[c].record_data[f]
                          ELSE records[r].content[f]

\* A call that has run its UPDATE returns after appending its changelog row:
\* it does not fail.
WriterSucceeds ==
    \A c \in Callers :
        (calls[c].pc = "write_changelog" /\ calls'[c] # calls[c]) =>
           LET r == calls[c].record_id
               v == calls[c].current_record.version
           IN  /\ calls'[c] = Returned
               /\ Len(changelog'[r]) = Len(changelog[r]) + 1
               /\ changelog'[r][Len(changelog'[r])].from_version = v
               /\ changelog'[r][Len(changelog'[r])].to_version = v + 1
               /\ changelog'[r][Len(changelog'[r])].changes = calls[c].changes

\* The write of the first caller is the one the live record shows: no other
\* call has written the record since.
FirstWriteStands(first) ==
    LET r == calls[first].record_id
    IN  /\ records[r].version = calls[first].current_record.version + 1
        /\ \A f \in DOMAIN calls[first].record_data :
              records[r].content[f] = calls[first].record_data[f]

C27_EachChangeHasItsOwnVersion ==
    \A r \in ExistingIds :
        /\ \A i, j \in DOMAIN changelog[r] :
              i # j => changelog[r][i].to_version # changelog[r][j].to_version
        /\ InFlight(r) = 0 => records[r].version = 1 + Len(changelog[r])

\* ---- SpecSteps
Others(c) == Callers \ {c}

\* A caller that ran alone, with no write failing, ends where the call run in
\* one step ends: the two models of change_record_status agree.
StepsAgreeWithCall ==
    \A c \in Callers :
        (calls[c].pc \in {"done", "raised"} /\ calls[c].outcome # "StoreError"
         /\ \A o \in Others(c) : calls[o].pc = "idle") =>
            \E res \in change_record_status(
                          StatusStore(calls[c].before.records,
                                      calls[c].before.status_history,
                                      calls[c].before.relationships),
                          calls[c].record_id, calls[c].new_status, NULL,
                          calls[c].auto_handle_conflicts) :
                /\ res.outcome = calls[c].outcome
                /\ res.st = CurrentStatusStore
                /\ calls[c].outcome = "ok" => res.affected_records = calls[c].affected_records

\* C2: when two callers concurrently accept two different proposed records of
\* one Decision, their store calls interleaved in any order, the Decision never
\* ends with both records accepted.
C2_ConcurrentAcceptsLeaveOneAccepted ==
    \A c1 \in Callers, c2 \in Callers :
        (/\ c1 # c2
         /\ calls[c1].pc = "done" /\ calls[c2].pc = "done"
         /\ calls[c1].new_status = "accepted" /\ calls[c2].new_status = "accepted"
         /\ calls[c1].old_status = "proposed" /\ calls[c2].old_status = "proposed"
         /\ calls[c1].record_id # calls[c2].record_id
         /\ calls[c1].decision_id = calls[c2].decision_id)
        => ~(/\ records[calls[c1].record_id].status = "accepted"
             /\ records[calls[c2].record_id].status = "accepted")

\* C10: no call partially applies on failure: when a call has raised (no other
\* caller having run), none of its writes remain: the store is the store the
\* call started from.
C10_FailedCallLeavesNoWrites ==
    \A c \in Callers :
        (calls[c].pc = "raised" /\ \A o \in Others(c) : calls[o].pc = "idle") =>
            Store = calls[c].before

\* ------------------------------------------- records created as proposed
\* Every record of the store was created with status proposed: its first
\* StatusHistory entry, written by create_decision_record, says so.
AllCreatedProposed ==
    \A r \in ExistingIds : status_history[r][1].to_status = "proposed"

\* C32: when every record was created proposed and calls run one at a time,
\* each Decision has at most one accepted record and at most one record that
\* is implemented or implemented_inferred, whatever auto_handle_conflicts was
\* on the changeStatus calls.
C32_ProposedStartKeepsAtMostOne ==
    AllCreatedProposed =>
       \A d \in Decisions :
           /\ Cardinality(AcceptedIn(records, d)) <= 1
           /\ Cardinality(ImplementedIn(records, d)) <= 1

\* C32 witness: three records created proposed under one Decision; one has
\* been implemented, one is accepted, and the last call was an accept with
\* auto_handle_conflicts false.
C32_Witness ==
    /\ AllCreatedProposed
    /\ Len(records) = 3
    /\ Cardinality(AcceptedIn(records, "D1")) = 1
    /\ Cardinality(ImplementedIn(records, "D1")) = 1
    /\ last.op = "changeStatus"
    /\ last.status = "accepted"
    /\ ~last.auto_handle_conflicts

\* --------------------------------------- inside one change_record_status
AtMostOne(recs) ==
    \A d \in Decisions :
        /\ Cardinality(AcceptedIn(recs, d)) <= 1
        /\ Cardinality(ImplementedIn(recs, d)) <= 1

\* Caller c has started a change_record_status and no other caller has.
RunsAlone(c) ==
    /\ calls[c].pc # "idle"
    /\ \A o \in Others(c) : calls[o].pc = "idle"

\* C33: inside one change_record_status that no other caller interleaves with,
\* the conflicting siblings are demoted before the target is promoted: while
\* the call has not reached the write of the target's status the target keeps
\* the status it had, and when the two at-most-one invariants held at the start
\* of the call they hold in the store after each of its writes (also when the
\* call stops at a failing write).
C33_DemoteBeforePromote ==
    \A c \in Callers :
        RunsAlone(c) =>
           /\ calls[c].pc \in {"lookup_accepted", "lookup_implemented",
                               "lookup_accepted_on_implement", "cascade_status",
                               "cascade_history", "cascade_relationship", "primary_status"}
                 => records[calls[c].record_id].status = calls[c].old_status
           /\ AtMostOne(calls[c].before.records) => AtMostOne(records)

\* C33 witness: a call that started with one accepted sibling has demoted it
\* and is about to promote the target: the Decision has no accepted record at
\* this point.
C33_Witness ==
    \E c \in Callers :
        /\ RunsAlone(c)
        /\ calls[c].pc = "primary_status"
        /\ calls[c].new_status = "accepted"
        /\ Len(calls[c].affected_records) = 1
        /\ AtMostOne(calls[c].before.records)
        /\ Cardinality(AcceptedIn(calls[c].before.records, "D1")) = 1
        /\ AcceptedIn(records, "D1") = {}

\* ------------------------------------------------ StatusHistory as a chain
\* The StatusHistory entries of record r, in creation order, lead from null to
\* the record's status along edges of the transition table.
HistoryIsChain(r) ==
    LET hist == status_history[r]
    IN  /\ Len(hist) >= 1
        /\ hist[1].from_status = NULL
        /\ \A k \in 2..Len(hist) :
              /\ hist[k].from_status = hist[k - 1].to_status
              /\ <<hist[k].from_status, hist[k].to_status>> \in TableEdges
        /\ hist[Len(hist)].to_status = records[r].status

\* C34: after every completed call, calls run one at a time, the StatusHistory
\* entries of every record form a chain: the first has from_status null, each
\* later one starts from the status the previous one ended in and is an edge of
\* the transition table (cascaded entries included), and the last one ends in
\* the record's current status.
C34_StatusHistoryIsChain ==
    /\ DOMAIN status_history = DOMAIN records
    /\ \A r \in ExistingIds : HistoryIsChain(r)

\* C34 witness: a record whose chain has three entries, the last of them
\* written by a cascade.
C34_Witness ==
    \E r \in ExistingIds :
        /\ Len(status_history[r]) = 3
        /\ status_history[r][3].metadata.change_type = "automatic"
        /\ status_history[r][1].to_status = "proposed"
        /\ HistoryIsChain(r)

\* ------------------------------------------- changelog entries and diffs
\* The content of record r at version v: the live content at the live version,
\* the snapshot's content below it.
ContentAt(r, v) ==
    IF v = records[r].version
      THEN records[r].content
      ELSE get_record_version_by_number(record_versions, r, v).snapshot.content

\* `content` with the field changes of a ChangelogEntry applied.
ApplyChanges(content, changes) ==
    [f \in Fields |-> IF f \in DOMAIN changes THEN changes[f].new ELSE content[f]]

\* The changes of an entry followed by the changes of a later one.
RECURSIVE ApplyEntries(_, _, _)
ApplyEntries(content, log, k) ==
    IF k > Len(log) THEN content
    ELSE ApplyEntries(ApplyChanges(content, log[k].changes), log, k + 1)

EntryLeadsToNextVersion(r, k) ==
    LET entry == changelog[r][k]
    IN  /\ entry.from_version = k
        /\ entry.to_version = k + 1
        /\ HasVersion(record_versions, r, k)
        /\ k + 1 < records[r].version => HasVersion(record_versions, r, k + 1)
        /\ \A f \in DOMAIN entry.changes : entry.changes[f].old = ContentAt(r, k)[f]
        /\ ApplyChanges(ContentAt(r, k), entry.changes) = ContentAt(r, k + 1)

\* C35: with calls run one at a time, the field changes of the ChangelogEntry
\* from version k to k + 1 applied to the content of snapshot k give the
\* content of snapshot k + 1, or the live content when k + 1 is the live
\* version; so the diff from version 1 to "current" is the net effect of all
\* entries: one change per field whose version-1 value differs from the live
\* value, from the one to the other.
C35_ChangelogReplaysToNextVersion ==
    \A r \in ExistingIds :
        /\ records[r].version = Len(changelog[r]) + 1
        /\ \A k \in DOMAIN changelog[r] : EntryLeadsToNextVersion(r, k)
        /\ LET d == get_version_diff(CurrentContentStore, r, Numbered(1), Current)
               first == ContentAt(r, 1)
               replayed == ApplyEntries(first, changelog[r], 1)
           IN  /\ d.outcome = "ok"
               /\ replayed = records[r].content
               /\ DOMAIN d.changes = {f \in Fields : first[f] # replayed[f]}
               /\ \A f \in DOMAIN d.changes :
                     d.changes[f] = [old |-> first[f], new |-> replayed[f]]

\* C35 witness: after two updates of the rationale alone, first to "a" then to
\* "b", the diff from version 1 to "current" holds the single change of the
\* rationale from its version-1 value to "b".
C35_Witness ==
    \E r \in ExistingIds :
        /\ Len(changelog[r]) = 2
        /\ DOMAIN changelog[r][1].changes = {"rationale"}
        /\ DOMAIN changelog[r][2].changes = {"rationale"}
        /\ changelog[r][1].changes.rationale.new = "a"
        /\ changelog[r][2].changes.rationale = [old |-> "a", new |-> "b"]
        /\ get_version_diff(CurrentContentStore, r, Numbered(1), Current).changes
              = [f \in {"rationale"} |-> [old |-> NULL, new |-> "b"]]

\* ------------------------------------ automatic entries and their edges
\* The automatic StatusHistory entries of a store: record and place.
AutomaticEntries(hist) ==
    {e \in UNION {{<<r, k>> : k \in DOMAIN hist[r]} : r \in DOMAIN hist} :
        hist[e[1]][e[2]].metadata.change_type = "automatic"}

TriggeringRecord(hist, e) == hist[e[1]][e[2]].metadata.triggering_decision_record_id

\* The superseded_by edges from the record of automatic entry e to the record
\* that triggered it.
SupersededByEdges(rels, hist, e) ==
    {i \in DOMAIN rels :
        /\ rels[i].source_record_id = e[1]
        /\ rels[i].target_record_id = TriggeringRecord(hist, e)
        /\ rels[i].relationship_type = "superseded_by"}

AutomaticEntryIsSound(e) ==
    /\ TriggeringRecord(status_history, e) \in ExistingIds
    /\ records[e[1]].decision_id
          = records[TriggeringRecord(status_history, e)].decision_id
    /\ records[e[1]].status \in Terminal

\* C36 as stated: in every state every automatic StatusHistory entry has its
\* superseded_by relationship, both records belong to one Decision and the
\* source record is rejected or deprecated.
C36_AutomaticEntryHasEdge ==
    \A e \in AutomaticEntries(status_history) :
        /\ SupersededByEdges(relationships, status_history, e) # {}
        /\ AutomaticEntryIsSound(e)

RelationshipCall == {"updateRelationship", "deleteRelationship"}

\* An automatic entry is written together with its edge, and only an update
\* or a delete of a relationship takes the edge away again.
C36_EdgeStep ==
    \A e \in AutomaticEntries(status_history') :
        IF e \notin AutomaticEntries(status_history)
          THEN SupersededByEdges(relationships', status_history', e) # {}
          ELSE (/\ SupersededByEdges(relationships, status_history, e) # {}
                /\ SupersededByEdges(relationships', status_history', e) = {})
               => /\ last'.op \in RelationshipCall
                  /\ UNCHANGED <<records, status_history>>

C36_EntriesAreSound ==
    \A e \in AutomaticEntries(status_history) : AutomaticEntryIsSound(e)

\* C36 (amended): every automatic StatusHistory entry is written together
\* with a superseded_by relationship from its record to the triggering record,
\* and the relationship stays until an update or a delete of a relationship
\* retypes or removes it; both records belong to one Decision, and once the
\* call has completed the source record is rejected or deprecated in every
\* later state.
C36_AutomaticEntryWrittenWithEdge == [][C36_EdgeStep]_vars /\ []C36_EntriesAreSound

\* C36 witness: the tool has just deleted the superseded_by edge of an
\* automatic entry; the entry is still there and its record is rejected.
C36_Witness ==
    /\ last.op = "deleteRelationship"
    /\ \E e \in AutomaticEntries(status_history) :
          /\ SupersededByEdges(last.before.relationships, status_history, e) # {}
          /\ SupersededByEdges(relationships, status_history, e) = {}
          /\ records[e[1]].status = "rejected"

\* ------------------------------------------------- the relationship tool
\* The edges from source to target of the given type, or of any type when no
\* type is given.
EdgesBetween(source, target, relationship_type) ==
    {i \in DOMAIN relationships :
        /\ relationships[i].source_record_id = source
        /\ relationships[i].target_record_id = target
        /\ relationship_type # NULL => relationships[i].relationship_type = relationship_type}

\* `after` is `relationships` without the edge at place i.
DeletedOnly(after, i) ==
    /\ Len(after) = Len(relationships) - 1
    /\ \A j \in DOMAIN after : after[j] = relationships[IF j < i THEN j ELSE j + 1]

\* `after` is `relationships` with the edge at place i given the new type
\* and / or description, its ends and every other edge as they were.
UpdatedOnly(after, i, description, new_type) ==
    /\ Len(after) = Len(relationships)
    /\ \A j \in DOMAIN after : j # i => after[j] = relationships[j]
    /\ after[i].source_record_id = relationships[i].source_record_id
    /\ after[i].target_record_id = relationships[i].target_record_id
    /\ after[i].relationship_type
          = IF new_type # NULL THEN new_type ELSE relationships[i].relationship_type
    /\ after[i].description
          = IF description # NULL THEN description ELSE relationships[i].description

\* C39: the update and delete modes of the relationship tool act only when
\* exactly one edge from the source record to the target record matches the
\* given relationship_type (the pair alone when no type is given), and then on
\* that edge alone; when none or several match, two edges of one type between
\* the pair included, the call returns an error and every relationship is as
\* it was.
C39_ToolActsOnTheOneMatch ==
    \A mode \in {"update", "delete"}, source \in ExistingIds \cup {MissingId},
       target \in ExistingIds \cup {MissingId},
       relationship_type \in RelationshipTypes \cup {NULL},
       description \in Descriptions, new_type \in NewTypes :
        LET res == manage_relationship(records, relationships, mode, source, target,
                                       relationship_type, description, new_type)
            edges == EdgesBetween(source, target, relationship_type)
        IN  /\ res.error # "none" => res.relationships = relationships
            /\ Cardinality(edges) # 1 => res.error # "none"
            /\ res.error = "none" =>
                  \E i \in edges :
                      IF mode = "delete"
                        THEN DeletedOnly(res.relationships, i)
                        ELSE UpdatedOnly(res.relationships, i, description, new_type)
            /\ (Cardinality(edges) = 1 /\ mode = "delete") => res.error = "none"
            /\ (/\ Cardinality(edges) = 1 /\ mode = "update" /\ relationship_type # NULL
                 /\ (description # NULL \/ new_type # NULL)) => res.error = "none"

\* C39 witness: two edges of one type lead from record 1 to record 2; a delete
\* naming that type is refused as ambiguous, and so is an update.
C39_Witness ==
    \E relationship_type \in RelationshipTypes :
        /\ Cardinality(EdgesBetween(1, 2, relationship_type)) = 2
        /\ manage_relationship(records, relationships, "delete", 1, 2, relationship_type,
                               NULL, NULL).error = "Multiple"
        /\ manage_relationship(records, relationships, "update", 1, 2, relationship_type,
                               "x", NULL).error = "Multiple"

\* ------------------------------------------ implementing with one accepted
\* The last call was a change_record_status to implemented that started with
\* at most one accepted record under the Decision of its record.
ImplementedWithOneAccepted ==
    /\ StatusChanged
    /\ last.status = "implemented"
    /\ Cardinality(AcceptedIn(last.before.records,
                              last.before.records[last.record_id].decision_id)) <= 1

\* C37: when the Decision has at most one accepted record, a change to
\* implemented that returns deprecates no accepted sibling, the target being
\* the accepted record itself; affected_records holds at most one id, and it
\* is the id of a sibling that was implemented or implemented_inferred.
C37_ImplementAffectsAtMostOne ==
    ImplementedWithOneAccepted =>
        /\ last.before.records[last.record_id].status = "accepted"
        /\ SiblingsThatWere({"accepted"}) = {}
        /\ Len(last.affected_records) <= 1
        /\ AffectedSet \subseteq SiblingsThatWere({"implemented", "implemented_inferred"})
        /\ \A S \in AffectedSet : records[S].status = "deprecated"

\* C37 witness: the one accepted record of a Decision was implemented while a
\* sibling was implemented_inferred; that sibling is the one id returned.
C37_Witness ==
    /\ ImplementedWithOneAccepted
    /\ Len(last.affected_records) = 1
    /\ \E S \in SiblingsThatWere({"implemented_inferred"}) : last.affected_records = <<S>>

\* ------------------------------------------------- implementation history
\* The status history rows of a record that enter implemented or
\* implemented_inferred (the join condition on impl_sh), by their place.
ImplementedEntries(hist, r) ==
    {i \in 1..Len(hist[r]) : hist[r][i].to_status \in {"implemented", "implemented_inferred"}}

\* The rows that leave implemented or implemented_inferred for deprecated (the
\* join condition on dep_sh).
DeprecationEntries(hist, r) ==
    {j \in 1..Len(hist[r]) :
        /\ hist[r][j].to_status = "deprecated"
        /\ hist[r][j].from_status \in {"implemented", "implemented_inferred"}}

\* First query of DatabaseService.get_implementation_history before ORDER BY
\* and LIMIT 1: the records of the Decision that are implemented or
\* implemented_inferred, LEFT JOINed with their rows entering such a status;
\* <<r, 0>> is the row of a record that has no such history row.
CurrentImplementationRows(recs, hist, decision_id) ==
    UNION {IF ImplementedEntries(hist, r) = {}
             THEN {<<r, 0>>}
             ELSE {<<r, i>> : i \in ImplementedEntries(hist, r)} :
           r \in SiblingsWithStatus(recs, decision_id,
                                    {"implemented", "implemented_inferred"})}

PastImplementationRows_EveryDeprecated(recs, hist, decision_id) ==
    UNION {{<<r, 0, j>> : j \in {k \in 1..Len(hist[r]) : hist[r][k].to_status = "deprecated"}} :
           r \in SiblingsWithStatus(recs, decision_id, {"deprecated"})}

\* Second query: SELECT DISTINCT over the deprecated records of the Decision
\* joined with impl_sh and with dep_sh.  A row is <<record, impl_sh row,
\* dep_sh row>>; rows built from different history rows stay distinct.
PastImplementationRows(recs, hist, decision_id) ==
    UNION {{<<r, i, j>> : i \in ImplementedEntries(hist, r), j \in DeprecationEntries(hist, r)} :
           r \in SiblingsWithStatus(recs, decision_id, {"deprecated"})}

ImplementationHistory(outcome, current_implementation, past_implementations, total) ==
    [outcome |-> outcome, current_implementation |-> current_implementation,
     past_implementations |-> past_implementations, total_implementations |-> total]

\* DecisionService.get_implementation_history: the results the call can return.
\* current_implementation is the id of the record of the first row (0 for
\* None); which row ORDER BY sh.changed_at DESC LIMIT 1 puts first depends on
\* the timestamps, so every row of the first query is a possible first one.
get_implementation_history(recs, hist, decision_id) ==
    IF decision_id \notin Decisions
      THEN {ImplementationHistory("NotFound", 0, {}, 0)}
      ELSE LET current == CurrentImplementationRows(recs, hist, decision_id)
               past == PastImplementationRows(recs, hist, decision_id)
           IN  IF current = {}
                 THEN {ImplementationHistory("ok", 0, past, Cardinality(past))}
                 ELSE {ImplementationHistory("ok", row[1], past, 1 + Cardinality(past)) :
                       row \in current}

\* The record is deprecated and the status it left for deprecated, the
\* from_status of its newest history row, is one of the given ones.
DeprecatedFrom(r, statuses) ==
    /\ records[r].status = "deprecated"
    /\ Len(status_history[r]) > 0
    /\ status_history[r][Len(status_history[r])].from_status \in statuses

ListedPast(res) == {row[1] : row \in res.past_implementations}

\* The records the last change_record_status turned deprecated, the target or
\* a cascaded sibling, with the status each had when the call started.
JustDeprecated ==
    IF StatusChanged
      THEN {r \in 1..Len(last.before.records) :
               /\ last.before.records[r].status # "deprecated"
               /\ records[r].status = "deprecated"}
      ELSE {}

\* C38: getImplementationHistory of a Decision returns as current_implementation
\* a record of the Decision that is implemented or implemented_inferred, and
\* none exactly when there is no such record; past_implementations lists, each
\* once, exactly the deprecated records of the Decision that were deprecated
\* from implemented or implemented_inferred, so a record deprecated from
\* accepted is not listed; a record a status change has just deprecated is
\* listed exactly when it was implemented or implemented_inferred before the
\* call; total_implementations is the number of listed records, plus 1 when
\* there is a current one.
C38_ImplementationHistory ==
    \A d \in Decisions : \A res \in get_implementation_history(records, status_history, d) :
        /\ res.outcome = "ok"
        /\ IF SiblingsWithStatus(records, d, {"implemented", "implemented_inferred"}) = {}
             THEN res.current_implementation = 0
             ELSE res.current_implementation \in
                      SiblingsWithStatus(records, d, {"implemented", "implemented_inferred"})
        /\ ListedPast(res) =
               {r \in 1..Len(records) :
                   /\ records[r].decision_id = d
                   /\ DeprecatedFrom(r, {"implemented", "implemented_inferred"})}
        /\ \A x, y \in res.past_implementations : x[1] = y[1] => x = y
        /\ \A r \in 1..Len(records) : DeprecatedFrom(r, {"accepted"}) => r \notin ListedPast(res)
        /\ \A r \in JustDeprecated :
               records[r].decision_id = d =>
                   (r \in ListedPast(res) <=>
                       last.before.records[r].status \in {"implemented", "implemented_inferred"})
        /\ res.total_implementations =
               Cardinality(res.past_implementations)
                   + (IF res.current_implementation # 0 THEN 1 ELSE 0)

\* C38 witness: a status change to implemented has just deprecated the
\* implemented sibling, which is the one past implementation listed beside
\* the current one, while another record of the Decision, deprecated from
\* accepted, is not listed.
C38_Witness ==
    \E res \in get_implementation_history(records, status_history, "D1") :
        /\ StatusChanged
        /\ last.status = "implemented"
        /\ res.current_implementation = last.record_id
        /\ JustDeprecated # {}
        /\ ListedPast(res) = JustDeprecated
        /\ res.total_implementations = 2
        /\ \E r \in 1..Len(records) : DeprecatedFrom(r, {"accepted"})

====
